---- MODULE Spec2Model ----
(***************************************************************************)
(* devops-tui: the OAuth 2.0 device-flow authenticator (package auth).     *)
(*                                                                         *)
(* The model follows DeviceFlowAuthenticator.GetToken through its three    *)
(* paths (cache hit, refresh, device flow with its poll loop), with        *)
(* ClearCache and HasCachedToken called between two GetToken calls, the    *)
(* commands login and logout, and Execute, which builds the API client     *)
(* from the token and runs the TUI whose requests carry it.  Time          *)
(* is the wall clock in whole seconds, counted from the start of the       *)
(* running call.  The token endpoint, the device-code endpoint, the file   *)
(* system and a second process reading the cache file are the environment: *)
(* each blocking call of the code is one position of pc, and the answer    *)
(* the environment gives is chosen from the outcomes the code              *)
(* distinguishes.                                                          *)
(*                                                                         *)
(* Beside the run of the authenticator (Spec, FairSpec) the module has a   *)
(* specification for each part that is driven on its own: the              *)
(* configuration (ConfigSpec), the work items list (PanelSpec), the        *)
(* fullscreen detail view (DetailViewSpec), the details panel              *)
(* (DetailsPanelSpec) and the fetch of work items by id (FetchSpec).       *)
(***************************************************************************)
EXTENDS Integers, Sequences, FiniteSets, TLC

VARIABLES
    cache,       \* content of the cache file a.cacheFile
    now,         \* wall clock, seconds since the running call began
    pc,          \* position of the running GetToken call
    calls,       \* GetToken calls that have returned
    interval,    \* pollForToken: local variable interval, seconds
    expiration,  \* pollForToken: local variable expiration
    ret,         \* what GetToken returned: [token, err]
    obs,         \* what the running call has done so far (requests, sleeps)
    api,         \* the last ClearCache or HasCachedToken call and its result
    cfg,         \* Execute: the configuration it has loaded
    client,      \* Execute: the API client it has built
    req,         \* the headers of the last request the client has sent
    prior,       \* what the GetToken call before returned, when it was the
                 \* token of a poll and was saved, and nothing but time has
                 \* come since
    w,           \* the WorkItemsPanel of the TUI
    lastOp,      \* the operation a component of the TUI was last given
    lastKey,     \* the key a detail component was last given
    dv,          \* the DetailView of the TUI
    dp,          \* the DetailsPanel of the TUI, the value its owner holds
    dpOut,       \* what the last View of the DetailsPanel rendered
    fetch        \* the running GetWorkItems call of the API client

vars == <<cache, now, pc, calls, interval, expiration, ret, obs, api,
          cfg, client, req, prior, w, lastOp, lastKey, dv,
          dp, dpOut, fetch>>

\* the components of the TUI and the fetch of work items they show
uiVars == <<w, lastOp, lastKey, dv,
          dp, dpOut, fetch>>

----------------------------------------------------------------------------
(* Program constants *)

\* the validity buffer of GetToken: 5 minutes
Margin == 300
\* pollForToken: the interval used when the server gives none
DefaultInterval == 5
\* pollForToken: what a slow_down adds to the interval
SlowDownIncrement == 5
\* GetWorkItems: the ids of one request
batchSize == 200

(* Bounds of the model *)

\* GetToken calls in one behaviour
MaxCalls == 2
\* seconds the answer to a poll request may take
MaxDelay == 1
\* the longest device-code lifetime the server gives, seconds
MaxDevExpiresIn == 11

----------------------------------------------------------------------------
(* Values the environment gives *)

NoToken == ""

\* TokenResponse, the fields the code reads.  A JSON body without a field
\* decodes to the empty string; the lifetimes are the two sides of the
\* validity buffer.
TokenResp(at, rt, life) ==
    [AccessToken |-> at, RefreshToken |-> rt, ExpiresIn |-> life]

TokenResponse ==
    {TokenResp("T1", "R1", Margin + 1), TokenResp("T1", NoToken, Margin),
     TokenResp(NoToken, "R1", Margin + 1)}

\* DeviceCodeResponse, the fields the code reads
DeviceCodeResponse == [ExpiresIn : {-1, 0, 1, MaxDevExpiresIn},
                       Interval : {0, 2}]

\* the cache file: missing, not parsable as JSON, or the JSON text of a
\* TokenCache, given by its three members (expires_at, an RFC 3339 text, by
\* the second it names)
Absent == [kind |-> "absent", at |-> NoToken, rt |-> NoToken, exp |-> 0]
Corrupt == [kind |-> "corrupt", at |-> NoToken, rt |-> NoToken, exp |-> 0]

TokenCache(at, rt, exp) == [kind |-> "ok", at |-> at, rt |-> rt, exp |-> exp]

\* a time.Time: the wall-clock second, and whether the value carries a
\* reading of the monotonic clock
Time(sec, mono) == [sec |-> sec, mono |-> mono]

\* a TokenCache value in memory
TokenCacheValue(at, rt, expiresAt) ==
    [AccessToken |-> at, RefreshToken |-> rt, ExpiresAt |-> expiresAt]

\* the cache files a first call may find: left by an earlier run
InitialCaches ==
    {Absent, Corrupt} \cup
    {TokenCache("A0", rt, Margin + 1) : rt \in {"R0", NoToken}}

\* how a request to the refresh endpoint can end (refreshToken)
RefreshOutcomes == {"transport", "status", "bad_body", "token"}
\* how the device-code request can end (requestDeviceCode)
DeviceCodeOutcomes == {"transport", "status", "bad_body", "code"}
\* how one poll request can end (pollForToken)
PollOutcomes == {"transport", "bad_error_body", "authorization_pending",
                 "slow_down", "expired_token", "authorization_declined",
                 "other_error", "bad_token_body", "token"}
\* how browser.Open can end (authenticateWithDeviceFlow)
BrowserOutcomes == {"ok", "failed"}
\* how saveTokenCache can end: written, failed before the file was opened,
\* failed after os.WriteFile truncated it
SaveOutcomes == {"ok", "unchanged", "partial"}

----------------------------------------------------------------------------
(* Results of GetToken *)

Ok(token) == [token |-> token, err |-> "none"]
Fail(err) == [token |-> NoToken, err |-> err]
NoResult == [token |-> NoToken, err |-> "pending"]

(* What a call has done so far *)
NoStart == [kind |-> "none", at |-> NoToken, rt |-> NoToken, exp |-> 0]
NoResp == TokenResp(NoToken, NoToken, 0)
NoCode == [ExpiresIn |-> 0, Interval |-> 0]
NoDeviceCode == <<>>

NoObs == [start |-> NoStart, t0 |-> -1, src |-> "none",
          nRefresh |-> 0, nDevCode |-> 0, nPoll |-> 0,
          pendings |-> 0,
          last |-> "none", refresh |-> "none", devcode |-> "none",
          dc |-> NoCode, save |-> "none", resp |-> NoResp,
          slept |-> -1, pollAt |-> -1,
          data |-> NoStart, peer |-> NoStart,
          code |-> NoDeviceCode, pollCode |-> NoDeviceCode,
          printed |-> FALSE, browser |-> "none", loadErr |-> "unset"]

\* no ClearCache or HasCachedToken call, and no command, since the last
\* GetToken of the main run.  For a command, has is what its HasCachedToken
\* call returned, called whether it called ClearCache and err whether that
\* call returned an error.
NoApi == [op |-> "none", err |-> FALSE, has |-> FALSE, called |-> FALSE,
          before |-> NoStart,
          prev |-> "none", prevErr |-> FALSE, prevBefore |-> NoStart]

\* obs.pendings counts the answers of the running poll loop as long as all
\* of them were authorization_pending, and is -1 from the first other
\* answer that is not the token
PendingsAfter(n, outcome) ==
    CASE outcome = "token" -> n
      [] outcome = "authorization_pending" /\ n >= 0 -> n + 1
      [] OTHER -> -1

----------------------------------------------------------------------------
(* Pure parts of the code *)

\* (variant: After in place of Before)
TokenStillValid_After(t, exp) == exp < t + Margin
\* (variant: the boundary counted as still valid)
TokenStillValid_Inclusive(t, exp) == t + Margin <= exp

\* GetToken: time.Now().Add(5 * time.Minute).Before(token.ExpiresAt)
TokenStillValid(t, exp) == t + Margin < exp

\* (variant: a file that does not parse is reported as a missing one)
loadCachedTokenErr_CorruptAsNotExist(c) ==
    IF c.kind = "ok" THEN "none" ELSE "not_exist"

\* loadCachedToken: the error it returns, that of os.ReadFile for a missing
\* file, that of json.Unmarshal for a file that does not parse
loadCachedTokenErr(c) ==
    CASE c.kind = "absent" -> "not_exist"
      [] c.kind = "corrupt" -> "syntax"
      [] c.kind = "ok" -> "none"

\* loadCachedToken: err == nil
loadCachedToken(c) == loadCachedTokenErr(c) = "none"

\* loadCachedToken: json.Unmarshal of the file into a TokenCache.  A time
\* parsed from text has no monotonic reading.
Unmarshal(c) == TokenCacheValue(c.at, c.rt, Time(c.exp, FALSE))

\* (variant: the refresh token is left out of the file)
MarshalIndent_NoRefreshToken(v) ==
    TokenCache(v.AccessToken, NoToken, v.ExpiresAt.sec)

\* saveTokenCache: json.MarshalIndent of a TokenCache.  The text of a time
\* names its wall-clock instant only.
MarshalIndent(v) ==
    TokenCache(v.AccessToken, v.RefreshToken, v.ExpiresAt.sec)

\* (variant: the two token fields exchanged)
NewTokenCache_Swapped(resp, t) ==
    TokenCacheValue(resp.RefreshToken, resp.AccessToken,
                    Time(t + resp.ExpiresIn, TRUE))

\* (variant: the lifetime of the token response is not added)
NewTokenCache_LifetimeDropped(resp, t) ==
    TokenCacheValue(resp.AccessToken, resp.RefreshToken, Time(t, TRUE))

\* saveTokenCache: the TokenCache built from a token response at time t;
\* time.Now() carries a monotonic reading and Add keeps it
NewTokenCache(resp, t) ==
    TokenCacheValue(resp.AccessToken, resp.RefreshToken,
                    Time(t + resp.ExpiresIn, TRUE))

\* (variant: a record without refresh token keeps the one of the old file)
saveTokenCache_RefreshTokenKept(c, resp, t, outcome) ==
    CASE outcome = "ok" ->
           IF resp.RefreshToken = NoToken /\ c.kind = "ok"
           THEN [MarshalIndent(NewTokenCache(resp, t)) EXCEPT !.rt = c.rt]
           ELSE MarshalIndent(NewTokenCache(resp, t))
      [] outcome = "unchanged" -> c
      [] outcome = "partial" -> Corrupt

\* saveTokenCache: the file afterwards
saveTokenCache(c, resp, t, outcome) ==
    CASE outcome = "ok" -> MarshalIndent(NewTokenCache(resp, t))
      [] outcome = "unchanged" -> c
      [] outcome = "partial" -> Corrupt

\* (variant: the file is removed before it is written anew)
Truncated_Removed(c) == Absent

\* os.WriteFile: the file between its OpenFile with O_TRUNC and its Write,
\* empty, which json.Unmarshal does not accept
Truncated(c) == Corrupt

\* (variant: an error of saveTokenCache is returned)
ReturnAfterSave_SaveErrorReturned(resp, outcome) ==
    IF outcome = "ok" THEN Ok(resp.AccessToken) ELSE Fail("save")

\* refreshToken and pollForToken: what they return after saveTokenCache
ReturnAfterSave(resp, outcome) == Ok(resp.AccessToken)

\* (variant: the result of refreshToken is returned, error or not)
RefreshSucceeded_Always(r) == TRUE

\* GetToken: err == nil after refreshToken
RefreshSucceeded(r) == r.err = "none"

\* ClearCache: how os.Remove can end.  A file that is not there gives
\* ErrNotExist; one that is there is removed, or stays when the file system
\* refuses (read-only, no write permission on the directory)
RemoveOutcomes(c) ==
    IF c.kind = "absent" THEN {"not_exist"} ELSE {"removed", "failed"}

\* ClearCache: the file after os.Remove
Remove(c, outcome) == IF outcome = "removed" THEN Absent ELSE c

\* (variant: every error of os.Remove is dropped)
ClearCacheErr_Swallowed(outcome) == FALSE
\* (variant: without the os.IsNotExist test)
ClearCacheErr_NotExistReturned(outcome) == outcome \in {"failed", "not_exist"}

\* ClearCache: whether it returns an error
ClearCacheErr(outcome) == outcome = "failed"

\* HasCachedToken: os.Stat gives no error
Stat(c) == c.kind # "absent"

\* (variant: login does not clear)
LoginClears_Never(has) == FALSE

\* Login: whether it calls ClearCache, has being what HasCachedToken returned
LoginClears(has) == has

\* (variant: logout calls ClearCache without asking HasCachedToken)
LogoutClears_Always(has) == TRUE

\* Logout: whether it calls ClearCache
LogoutClears(has) == has

\* (variant: the status of the answer is not looked at)
DeviceCodeOk_StatusIgnored(outcome) == outcome \in {"code", "status"}

\* authenticateWithDeviceFlow: err == nil after requestDeviceCode
DeviceCodeOk(outcome) == outcome = "code"

\* requestDeviceCode: the device_code of the answer.  The server gives a
\* code once only; it is named here by the request it answers, the n-th
\* device-code request of the call that follows c returned calls.
DeviceCode(c, n) == <<c, n>>

\* (variant: an error of browser.Open is returned)
OpenErrorReturned_OnFailure(outcome) == outcome = "failed"

\* authenticateWithDeviceFlow: whether it returns when browser.Open gave an
\* error (both branches of the if only print)
OpenErrorReturned(outcome) == FALSE

\* (variant: the code of the first device flow is kept and sent again)
DeviceCodeSent_FirstKept(code) == DeviceCode(0, 1)

\* pollForToken: the device_code member of a poll request
DeviceCodeSent(code) == code

\* (variant: the interval of the response is taken as it is)
InitialInterval_NoDefault(dc) == dc.Interval

\* pollForToken: the first interval
InitialInterval(dc) ==
    IF dc.Interval = 0 THEN DefaultInterval ELSE dc.Interval

\* (variant: the instant of expiry itself is still in time)
BeforeDeadline_Inclusive(t, e) == t <= e

\* pollForToken: the loop condition time.Now().Before(expiration)
BeforeDeadline(t, e) == t < e

\* (variant: an immediate retry after a transport failure)
SleepDuration_SkipAfterError(iv, last) == IF last = "transport" THEN 0 ELSE iv

\* pollForToken: the duration handed to time.Sleep
SleepDuration(iv, last) == iv

\* (variant: = in place of +=)
NextInterval_Assign(iv, outcome) ==
    IF outcome = "slow_down" THEN SlowDownIncrement ELSE iv

\* pollForToken: the interval after a response
NextInterval(iv, outcome) ==
    IF outcome = "slow_down" THEN iv + SlowDownIncrement ELSE iv

\* (variant: slow_down has no case of its own and takes the default one)
PollDisposition_SlowDownFatal(outcome) ==
    CASE outcome \in {"transport", "bad_error_body", "authorization_pending"}
           -> "continue"
      [] outcome \in {"slow_down", "expired_token", "authorization_declined",
                      "other_error", "bad_token_body"} -> "error"
      [] outcome = "token" -> "token"

\* (variant: authorization_declined keeps polling)
PollDisposition_DeclinedRetried(outcome) ==
    CASE outcome \in {"transport", "bad_error_body", "authorization_pending",
                      "slow_down", "authorization_declined"} -> "continue"
      [] outcome \in {"expired_token", "other_error", "bad_token_body"}
           -> "error"
      [] outcome = "token" -> "token"

\* (variant: a transport failure ends the loop with the error)
PollDisposition_TransportFatal(outcome) ==
    CASE outcome \in {"bad_error_body", "authorization_pending",
                      "slow_down"} -> "continue"
      [] outcome \in {"transport", "expired_token", "authorization_declined",
                      "other_error", "bad_token_body"} -> "error"
      [] outcome = "token" -> "token"

\* pollForToken: what the loop does with a response
PollDisposition(outcome) ==
    CASE outcome \in {"transport", "bad_error_body", "authorization_pending",
                      "slow_down"} -> "continue"
      [] outcome \in {"expired_token", "authorization_declined",
                      "other_error", "bad_token_body"} -> "error"
      [] outcome = "token" -> "token"

\* (variant: the test of the refresh token inverted)
ShouldRefresh_Inverted(rt) == rt = NoToken

\* GetToken: token.RefreshToken != ""
ShouldRefresh(rt) == rt # NoToken

\* (variant: a record without refresh token is returned although expired)
GetTokenPath_StaleHit(c, t) ==
    LET token == Unmarshal(c) IN
    CASE loadCachedToken(c)
           /\ (TokenStillValid(t, token.ExpiresAt.sec)
                 \/ ~ShouldRefresh(token.RefreshToken)) -> "cache"
      [] loadCachedToken(c) /\ ~TokenStillValid(t, token.ExpiresAt.sec)
                            /\ ShouldRefresh(token.RefreshToken) -> "refresh"
      [] OTHER -> "device"

\* (variant: the record json.Unmarshal has left is used despite its error)
GetTokenPath_CorruptRefreshes(c, t) ==
    LET token == Unmarshal(c) IN
    CASE loadCachedToken(c)
           /\ TokenStillValid(t, token.ExpiresAt.sec) -> "cache"
      [] loadCachedToken(c) /\ ~TokenStillValid(t, token.ExpiresAt.sec)
                            /\ ShouldRefresh(token.RefreshToken) -> "refresh"
      [] c.kind = "corrupt" -> "refresh"
      [] OTHER -> "device"

\* GetToken: which of its three paths a call takes
GetTokenPath(c, t) ==
    LET token == Unmarshal(c) IN
    CASE loadCachedToken(c)
           /\ TokenStillValid(t, token.ExpiresAt.sec) -> "cache"
      [] loadCachedToken(c) /\ ~TokenStillValid(t, token.ExpiresAt.sec)
                            /\ ShouldRefresh(token.RefreshToken) -> "refresh"
      [] OTHER -> "device"

\* Config, the fields of it that decide the authentication
NoCfg == [PAT |-> NoToken, AccessToken |-> NoToken, AuthMethod |-> "none"]

\* the PAT of the configuration file or of AZURE_DEVOPS_PAT: none or one
PATs == {NoToken, "P0", "P1"}

\* the access tokens a caller may hand to SetAccessToken
AccessTokens == {NoToken, "A0", "T1", "T2"}

\* config.Load: AccessToken is not read from the file, AuthMethod follows
\* from the PAT
Load(pat) ==
    [PAT |-> pat, AccessToken |-> NoToken,
     AuthMethod |-> IF pat # NoToken THEN "pat" ELSE "oauth"]

\* Config.NeedsOAuth
NeedsOAuth(c) == c.PAT = NoToken /\ c.AccessToken = NoToken

\* Config.SetAccessToken
SetAccessToken(c, token) ==
    [c EXCEPT !.AccessToken = token, !.AuthMethod = "oauth"]

\* Config.GetToken
ConfigGetToken(c) == IF c.PAT # NoToken THEN c.PAT ELSE c.AccessToken

\* Config.IsPAT
IsPAT(c) == c.AuthMethod = "pat"

\* base64.StdEncoding.EncodeToString, for the texts it is given here
EncodeToString(s) ==
    CASE s = ":" -> "Og=="
      [] s = ":P0" -> "OlAw"
      [] s = ":P1" -> "OlAx"
      [] s = ":A0" -> "OkEw"
      [] s = ":T1" -> "OlQx"

\* api.Client, the field that carries the credential
NoClient == [authHeader |-> NoToken]

\* api.NewClient
NewClient(c) ==
    [authHeader |-> IF IsPAT(c)
                    THEN "Basic " \o EncodeToString(":" \o c.PAT)
                    ELSE "Bearer " \o ConfigGetToken(c)]

\* (variant: every token is sent as a PAT)
NewClientWithToken_AlwaysBasic(c, token, isPAT) ==
    [authHeader |-> "Basic " \o EncodeToString(":" \o token)]

\* api.NewClientWithToken
NewClientWithToken(c, token, isPAT) ==
    [authHeader |-> IF isPAT
                    THEN "Basic " \o EncodeToString(":" \o token)
                    ELSE "Bearer " \o token]

\* auth.GetAuthHeader
GetAuthHeader(token, isPAT) ==
    IF isPAT
    THEN "Basic " \o EncodeToString(":" \o token)
    ELSE "Bearer " \o token

\* the headers doRequestWithContentType sets; no request sent yet
NoReq == [Authorization |-> NoToken, ContentType |-> NoToken]

\* the content types the client's callers pass
ContentTypes == {"application/json", "application/json-patch+json"}

----------------------------------------------------------------------------
(* The work items list of the TUI (WorkItemsPanel) *)

MaxItems == 2

\* models.WorkItem, the fields the panel reads
WorkItem(id, state, type) == [ID |-> id, State |-> state, Type |-> type]

\* a nil *models.WorkItem
Nil == WorkItem(-1, "", "")

\* the work items a query may return
ItemPool ==
    {WorkItem(1, "New", "Bug"), WorkItem(2, "Active", "Bug"),
     WorkItem(0, "New", "Task")}

\* the lists SetItems may be given
ItemLists == UNION {[1..n -> ItemPool] : n \in 0..MaxItems}

\* the heights SetSize may be given: 2 and 4 visible rows (the panel as
\* made has height 0 and 1 visible row)
Heights == {7, 9}

\* the keys Update tells apart
Keys == {"up", "down", "top", "bottom", "pgup", "pgdown", "open", "view",
         "sort_id", "sort_state", "sort_type"}

\* Go's < on the strings of State and Type
StringOrder == <<"", "Active", "Bug", "New", "Task">>
StringRank(x) == CHOOSE k \in 1..Len(StringOrder) : StringOrder[k] = x
StringLess(x, y) == StringRank(x) < StringRank(y)

\* NewWorkItemsPanel
NewWorkItemsPanel ==
    [items |-> <<>>, cursor |-> 0, offset |-> 0, height |-> 0,
     focused |-> FALSE, sortField |-> "SortByID", sortDir |-> "SortAsc"]

\* WorkItemsPanel.visibleItemCount
visibleItemCount(p) == IF p.height - 5 < 1 THEN 1 ELSE p.height - 5

\* the two tests that bring the offset to the cursor, as Update and SetItems
\* have them inline
KeepCursorVisible(p) ==
    LET visible == visibleItemCount(p)
        o1 == IF p.cursor < p.offset THEN p.cursor ELSE p.offset
        o2 == IF p.cursor >= o1 + visible THEN p.cursor - visible + 1 ELSE o1
    IN [p EXCEPT !.offset = o2]

\* (variant: the window is not moved down to a cursor below it)
adjustOffset_NoScrollDown(p) ==
    LET o1 == IF p.cursor < p.offset THEN p.cursor ELSE p.offset
    IN [p EXCEPT !.offset = IF o1 < 0 THEN 0 ELSE o1]

\* WorkItemsPanel.adjustOffset, and the same statements in SetSize
adjustOffset(p) ==
    LET q == KeepCursorVisible(p)
    IN [q EXCEPT !.offset = IF @ < 0 THEN 0 ELSE @]

\* WorkItemsPanel.moveUp
moveUp(p) ==
    IF p.cursor > 0 THEN adjustOffset([p EXCEPT !.cursor = @ - 1]) ELSE p

\* WorkItemsPanel.moveDown
moveDown(p) ==
    IF p.cursor < Len(p.items) - 1
    THEN adjustOffset([p EXCEPT !.cursor = @ + 1])
    ELSE p

\* WorkItemsPanel.moveToTop
moveToTop(p) == [p EXCEPT !.cursor = 0, !.offset = 0]

\* WorkItemsPanel.moveToBottom
moveToBottom(p) ==
    IF Len(p.items) > 0
    THEN adjustOffset([p EXCEPT !.cursor = Len(p.items) - 1])
    ELSE p

\* Update: the jump of page up and page down
Jump(p) ==
    IF visibleItemCount(p) \div 2 < 1 THEN 1 ELSE visibleItemCount(p) \div 2

\* Update, the case isPageUp
PageUpKey(p) ==
    LET c == p.cursor - Jump(p)
    IN KeepCursorVisible([p EXCEPT !.cursor = IF c < 0 THEN 0 ELSE c])

\* Update, the case isPageDown
PageDownKey(p) ==
    LET c1 == p.cursor + Jump(p)
        c2 == IF c1 >= Len(p.items) THEN Len(p.items) - 1 ELSE c1
    IN KeepCursorVisible([p EXCEPT !.cursor = IF c2 < 0 THEN 0 ELSE c2])

\* sortItems: the function handed to sort.SliceStable
Less(x, y, field, dir) ==
    LET less == CASE field = "SortByID" -> x.ID < y.ID
                  [] field = "SortByState" -> StringLess(x.State, y.State)
                  [] field = "SortByType" -> StringLess(x.Type, y.Type)
                  [] OTHER -> x.ID < y.ID
    IN IF dir = "SortDesc" THEN ~less ELSE less

\* sort.SliceStable on a slice of at most 20 elements is one insertion sort:
\* the element at j goes left as long as it is less than the one before it
RECURSIVE InsertLeft(_, _, _, _)
InsertLeft(s, j, field, dir) ==
    IF j > 1 /\ Less(s[j], s[j - 1], field, dir)
    THEN InsertLeft([s EXCEPT ![j] = s[j - 1], ![j - 1] = s[j]], j - 1,
                    field, dir)
    ELSE s

RECURSIVE InsertionSort(_, _, _, _)
InsertionSort(s, i, field, dir) ==
    IF i > Len(s) THEN s
    ELSE InsertionSort(InsertLeft(s, i, field, dir), i + 1, field, dir)

\* WorkItemsPanel.sortItems
sortItems(p) ==
    IF Len(p.items) = 0 THEN p
    ELSE [p EXCEPT !.items = InsertionSort(@, 2, p.sortField, p.sortDir)]

\* WorkItemsPanel.toggleSort
toggleSort(p, field) ==
    sortItems(
        IF p.sortField = field
        THEN [p EXCEPT !.sortDir =
                IF @ = "SortAsc" THEN "SortDesc" ELSE "SortAsc"]
        ELSE [p EXCEPT !.sortField = field, !.sortDir = "SortAsc"])

\* WorkItemsPanel.SelectedItem
SelectedItem(p) ==
    IF p.cursor >= 0 /\ p.cursor < Len(p.items)
    THEN p.items[p.cursor + 1]
    ELSE Nil

\* WorkItemsPanel.Update; the keys open and view give a command and leave
\* the panel as it is
Update(p, key) ==
    IF ~p.focused THEN p
    ELSE CASE key = "up" -> moveUp(p)
           [] key = "down" -> moveDown(p)
           [] key = "top" -> moveToTop(p)
           [] key = "bottom" -> moveToBottom(p)
           [] key = "pgup" -> PageUpKey(p)
           [] key = "pgdown" -> PageDownKey(p)
           [] key = "sort_id" -> toggleSort(p, "SortByID")
           [] key = "sort_state" -> toggleSort(p, "SortByState")
           [] key = "sort_type" -> toggleSort(p, "SortByType")
           [] OTHER -> p

\* WorkItemsPanel.SetSize
SetSize(p, height) == adjustOffset([p EXCEPT !.height = height])

\* WorkItemsPanel.SetFocused
SetFocused(p, focused) == [p EXCEPT !.focused = focused]

\* SetItems: the first index of the list that holds an item with the ID, or
\* -1
IndexOfID(items, id) ==
    IF \E k \in 1..Len(items) : items[k].ID = id
    THEN (CHOOSE k \in 1..Len(items) :
             /\ items[k].ID = id
             /\ \A j \in 1..(k - 1) : items[j].ID # id) - 1
    ELSE -1

\* (variant: every new list puts the cursor at the top)
RestoreCursor_AlwaysReset(p, oldLen, selectedID) ==
    IF Len(p.items) > 0 THEN [p EXCEPT !.cursor = 0, !.offset = 0] ELSE p

\* SetItems: the cursor after the new list has been sorted
RestoreCursor(p, oldLen, selectedID) ==
    IF oldLen = 0 /\ Len(p.items) > 0
    THEN [p EXCEPT !.cursor = 0, !.offset = 0]
    ELSE IF selectedID > 0 /\ IndexOfID(p.items, selectedID) >= 0
         THEN [p EXCEPT !.cursor = IndexOfID(p.items, selectedID)]
         ELSE p

\* (variant: the cursor is left where it is)
ClampCursor_None(p) == p

\* SetItems: the cursor is brought into the range of the list
ClampCursor(p) ==
    LET c == IF p.cursor >= Len(p.items) THEN Len(p.items) - 1 ELSE p.cursor
    IN [p EXCEPT !.cursor = IF c < 0 THEN 0 ELSE c]

\* WorkItemsPanel.SetItems
SetItems(p, items) ==
    LET selectedID == IF p.cursor >= 0 /\ p.cursor < Len(p.items)
                      THEN p.items[p.cursor + 1].ID
                      ELSE 0
        oldLen == Len(p.items)
        sorted == sortItems([p EXCEPT !.items = items])
    IN KeepCursorVisible(ClampCursor(RestoreCursor(sorted, oldLen,
                                                   selectedID)))

----------------------------------------------------------------------------
(* The fullscreen detail view of the TUI (DetailView) *)

\* the most lines buildContent makes of an item
MaxLines == 5

\* Go's / on int: the quotient truncated toward zero
GoDiv(a, b) == IF a >= 0 THEN a \div b ELSE -((-a) \div b)

\* the work items SetItem may be given, nil among them
DetailItems == {Nil, WorkItem(1, "New", "Bug"), WorkItem(2, "Active", "Bug")}

\* the sizes SetSize may be given: 1 and 4 viewable lines
DetailWidths == {80, 100}
DetailHeights == {5, 8}

\* the keys DetailView.Update and DetailsPanel.Update tell apart
DetailKeys == {"back", "quit", "open", "up", "down", "top", "bottom",
               "pgup", "pgdown"}

\* NewDetailView; contentLines is the number of lines held, 0 for nil
NewDetailView ==
    [item |-> Nil, width |-> 0, height |-> 0, scrollOffset |-> 0,
     maxScroll |-> 0, contentLines |-> 0, contentBuilt |-> FALSE]

\* DetailView.Update: page up and page down jump by half the viewable height
DetailViewJump(d) ==
    IF GoDiv(d.height - 4, 2) < 1 THEN 1 ELSE GoDiv(d.height - 4, 2)

\* DetailView.Update
DetailViewUpdate(d, key) ==
    CASE key = "up" ->
           IF d.scrollOffset > 0
           THEN [d EXCEPT !.scrollOffset = d.scrollOffset - 1] ELSE d
      [] key = "down" ->
           IF d.scrollOffset < d.maxScroll
           THEN [d EXCEPT !.scrollOffset = d.scrollOffset + 1] ELSE d
      [] key = "top" -> [d EXCEPT !.scrollOffset = 0]
      [] key = "bottom" -> [d EXCEPT !.scrollOffset = d.maxScroll]
      [] key = "pgup" ->
           IF d.scrollOffset - DetailViewJump(d) < 0
           THEN [d EXCEPT !.scrollOffset = 0]
           ELSE [d EXCEPT !.scrollOffset = d.scrollOffset - DetailViewJump(d)]
      [] key = "pgdown" ->
           IF d.scrollOffset + DetailViewJump(d) > d.maxScroll
           THEN [d EXCEPT !.scrollOffset = d.maxScroll]
           ELSE [d EXCEPT !.scrollOffset = d.scrollOffset + DetailViewJump(d)]
      [] OTHER -> d

\* DetailView.buildContent: the sections of the item, rendered at the
\* width held and split into lines; n is the number of lines that gives
buildContent(d, n) == [d EXCEPT !.contentLines = n, !.contentBuilt = TRUE]

\* DetailView.View: the scroll offset clamped to the maximum just computed
ClampScroll_None(d) == d

ClampScroll(d) ==
    IF d.scrollOffset > d.maxScroll
    THEN [d EXCEPT !.scrollOffset = IF d.maxScroll < 0 THEN 0 ELSE d.maxScroll]
    ELSE IF d.scrollOffset < 0 THEN [d EXCEPT !.scrollOffset = 0] ELSE d

\* DetailView.View, the fields it leaves in the view
DetailViewView(d, n) ==
    IF d.item = Nil THEN d
    ELSE LET b == IF ~d.contentBuilt THEN buildContent(d, n) ELSE d
             viewableHeight == IF b.height - 4 < 1 THEN 1 ELSE b.height - 4
             max == b.contentLines - viewableHeight
         IN ClampScroll([b EXCEPT !.maxScroll = IF max < 0 THEN 0 ELSE max])

\* DetailView.SetItem
DetailViewSetItem(d, item) ==
    [d EXCEPT !.item = item, !.scrollOffset = 0, !.maxScroll = 0,
              !.contentBuilt = FALSE, !.contentLines = 0]

\* DetailView.SetSize
DetailViewSetSize(d, width, height) ==
    [d EXCEPT !.contentBuilt =
                  IF d.width # width \/ d.height # height
                  THEN FALSE ELSE d.contentBuilt,
              !.width = width, !.height = height]

----------------------------------------------------------------------------
(* The details panel beside the list (DetailsPanel) *)

\* the heights SetSize may be given: 1 and 4 viewable lines
DetailsHeights == {3, 6}

\* NewDetailsPanel
NewDetailsPanel ==
    [item |-> Nil, width |-> 0, height |-> 0, focused |-> FALSE,
     scrollOffset |-> 0, maxScroll |-> 0]

\* nothing rendered for the item and the size held
NoView == [contentLines |-> 0, maxScroll |-> 0, scrollOffset |-> 0]

\* DetailsPanel.Update: page up and page down jump by half the height
DetailsPanelJump(d) ==
    IF GoDiv(d.height, 2) < 1 THEN 1 ELSE GoDiv(d.height, 2)

\* DetailsPanel.Update, the panel it returns
DetailsPanelUpdate(d, key) ==
    IF ~d.focused THEN d
    ELSE CASE key = "up" ->
                IF d.scrollOffset > 0
                THEN [d EXCEPT !.scrollOffset = d.scrollOffset - 1] ELSE d
           [] key = "down" ->
                IF d.scrollOffset < d.maxScroll
                THEN [d EXCEPT !.scrollOffset = d.scrollOffset + 1] ELSE d
           [] key = "top" -> [d EXCEPT !.scrollOffset = 0]
           [] key = "bottom" -> [d EXCEPT !.scrollOffset = d.maxScroll]
           [] key = "pgup" ->
                IF d.scrollOffset - DetailsPanelJump(d) < 0
                THEN [d EXCEPT !.scrollOffset = 0]
                ELSE [d EXCEPT !.scrollOffset =
                                   d.scrollOffset - DetailsPanelJump(d)]
           [] key = "pgdown" ->
                IF d.scrollOffset + DetailsPanelJump(d) > d.maxScroll
                THEN [d EXCEPT !.scrollOffset = d.maxScroll]
                ELSE [d EXCEPT !.scrollOffset =
                                   d.scrollOffset + DetailsPanelJump(d)]
           [] OTHER -> d

\* DetailsPanel.View, the receiver at its return; n is the number of lines
\* of the content built
DetailsPanelViewReceiver(d, n) ==
    IF d.item = Nil THEN d
    ELSE LET max == n - (d.height - 2)
             m == [d EXCEPT !.maxScroll = IF max < 0 THEN 0 ELSE max]
         IN IF m.scrollOffset > m.maxScroll
            THEN [m EXCEPT !.scrollOffset = m.maxScroll] ELSE m

\* DetailsPanel.View: the slice contentLines[:viewableHeight] is taken of a
\* content longer than the viewable height, which must not be negative
DetailsPanelViewPanics(d) == d.item # Nil /\ d.height - 2 < 0

\* DetailsPanel.View has a value receiver: the panel of the caller is as
\* before the call, whatever the receiver was given
ValueReceiver_Pointer(d, receiver) == receiver

ValueReceiver(d, receiver) == d

\* DetailsPanel.View, the panel of the caller after it
DetailsPanelView(d, n) == ValueReceiver(d, DetailsPanelViewReceiver(d, n))

\* DetailsPanel.View, what it renders: the lines of the content, and the
\* scroll position the scroll indicator is made of
DetailsPanelRendered(d, n) ==
    IF d.item = Nil THEN NoView
    ELSE [contentLines |-> n,
          maxScroll |-> DetailsPanelViewReceiver(d, n).maxScroll,
          scrollOffset |-> DetailsPanelViewReceiver(d, n).scrollOffset]

\* DetailsPanel.SetItem
DetailsPanelSetItem(d, item) ==
    [d EXCEPT !.scrollOffset =
                  IF d.item = Nil \/ item = Nil \/ d.item.ID # item.ID
                  THEN 0 ELSE d.scrollOffset,
              !.item = item]

\* DetailsPanel.SetFocused
DetailsPanelSetFocused(d, focused) == [d EXCEPT !.focused = focused]

\* DetailsPanel.SetSize
DetailsPanelSetSize(d, width, height) ==
    [d EXCEPT !.width = width, !.height = height]

----------------------------------------------------------------------------
(* The fetch of work items by id (Client.GetWorkItems) *)

\* the longest id list GetWorkItems is given
MaxIds == 401

\* the lengths of the id lists given; the ids are told apart by their
\* position in the list, 1..n
IdCounts ==
    {0, 1, batchSize - 1, batchSize, batchSize + 1, 2 * batchSize, MaxIds}

\* the parents the items of one response have: none (System.Parent 0), one
\* parent for all, or a parent of its own for each item
ParentShapes == {"none", "same", "own"}

\* no call running
NoFetch ==
    [pc |-> "idle", n |-> 0, i |-> 0, requests |-> <<>>, allItems |-> 0,
     parentIDs |-> {}, err |-> "none"]

\* GetWorkItems: the end of the batch that starts at i
BatchEnd(i, n) == IF i + batchSize > n THEN n ELSE i + batchSize

\* the ParentID convertWorkItem gives the item at position k of the list
ParentID(k, n, shape) ==
    CASE shape = "none" -> 0
      [] shape = "same" -> n + 1
      [] shape = "own" -> n + 1 + k

\* populateParentTitles: the parent ids above 0 of the items i+1..end
CollectParentIDs(i, end, n, shape) ==
    {ParentID(k, n, shape) : k \in (i + 1)..end} \ {0}

\* a request to /wit/workitems: the positions from+1..to of the id list
\* for a batch, and the number of ids it carries
BatchRequest(i, end) ==
    [kind |-> "batch", from |-> i, to |-> end, ids |-> end - i]

\* the request of populateParentTitles: the ids of all parents collected
ParentRequest(parentIDs) ==
    [kind |-> "parents", from |-> 0, to |-> 0, ids |-> Cardinality(parentIDs)]

----------------------------------------------------------------------------
Init ==
    /\ cache \in InitialCaches
    /\ now = 0
    /\ pc = "idle"
    /\ calls = 0
    /\ interval = 0
    /\ expiration = 0
    /\ ret = NoResult
    /\ obs = NoObs
    /\ api = NoApi
    /\ cfg = NoCfg
    /\ client = NoClient
    /\ req = NoReq
    /\ prior = NoResult
    /\ w = NewWorkItemsPanel
    /\ lastOp = "none"
    /\ lastKey = "none"
    /\ dv = NewDetailView
    /\ dp = NewDetailsPanel
    /\ dpOut = NoView
    /\ fetch = NoFetch

\* GetToken, up to its first blocking call
GetTokenStart ==
    LET path == GetTokenPath(cache, now)
        seen == [NoObs EXCEPT !.start = cache, !.t0 = now,
                              !.loadErr = loadCachedTokenErr(cache)]
    IN
    CASE path = "cache" ->
           /\ pc' = "done"
           /\ ret' = Ok(Unmarshal(cache).AccessToken)
           /\ obs' = [seen EXCEPT !.src = "cache"]
      [] path = "refresh" ->
           /\ pc' = "refresh"
           /\ ret' = NoResult
           /\ obs' = [seen EXCEPT !.nRefresh = 1]
      [] path = "device" ->
           /\ pc' = "devcode"
           /\ ret' = NoResult
           /\ obs' = [seen EXCEPT !.nDevCode = 1]

\* GetToken called by the main run: Execute with a configuration that
\* needs OAuth
GetToken ==
    /\ pc = "idle"
    /\ calls < MaxCalls
    /\ \E pat \in PATs : cfg' = Load(pat) /\ NeedsOAuth(cfg')
    /\ GetTokenStart
    /\ api' = NoApi
    /\ UNCHANGED <<cache, now, calls, interval, expiration, client, req,
                   prior>>
    /\ UNCHANGED uiVars

\* Execute with a configuration that has a PAT: no GetToken call, the
\* client is built from the configuration and the TUI runs
ExecuteWithPAT ==
    /\ pc = "idle"
    /\ calls < MaxCalls
    /\ \E pat \in PATs : cfg' = Load(pat) /\ ~NeedsOAuth(cfg')
    /\ client' = NewClient(cfg')
    /\ pc' = "tui"
    /\ api' = NoApi
    /\ UNCHANGED <<cache, now, calls, interval, expiration, ret, obs, req,
                   prior>>
    /\ UNCHANGED uiVars

\* HasCachedToken and, when it returns true, ClearCache, as the commands
\* login and logout call them: the file and the record of the command
\* afterwards
ClearIfCached(op, clears) ==
    IF clears
    THEN \E o \in RemoveOutcomes(cache) :
           /\ cache' = Remove(cache, o)
           /\ api' = [NoApi EXCEPT !.op = op, !.has = Stat(cache),
                                   !.called = TRUE, !.err = ClearCacheErr(o),
                                   !.before = cache]
    ELSE /\ cache' = cache
         /\ api' = [NoApi EXCEPT !.op = op, !.has = Stat(cache),
                                 !.before = cache]

\* Login up to its call of GetToken, or to its return when ClearCache gave
\* an error
Login ==
    /\ pc = "idle"
    /\ calls < MaxCalls
    /\ ClearIfCached("Login", LoginClears(Stat(cache)))
    /\ pc' = IF api'.err THEN "idle" ELSE "login"
    /\ prior' = NoResult
    /\ UNCHANGED <<now, calls, interval, expiration, ret, obs>>
    /\ UNCHANGED <<cfg, client, req>>
    /\ UNCHANGED uiVars

\* Login: its call of GetToken.  Of the record of the command, what
\* HasCachedToken returned is kept while the call runs.
LoginGetToken ==
    /\ pc = "login"
    /\ GetTokenStart
    /\ api' = [NoApi EXCEPT !.op = "Login", !.has = api.has,
                            !.called = api.called]
    /\ UNCHANGED <<cache, now, calls, interval, expiration>>
    /\ UNCHANGED <<cfg, client, req, prior>>
    /\ UNCHANGED uiVars

\* Logout
Logout ==
    /\ pc = "idle"
    /\ calls < MaxCalls
    /\ ClearIfCached("Logout", LogoutClears(Stat(cache)))
    /\ prior' = NoResult
    /\ UNCHANGED <<now, pc, calls, interval, expiration, ret, obs>>
    /\ UNCHANGED <<cfg, client, req>>
    /\ UNCHANGED uiVars

\* GetToken after refreshToken has returned r; seen is what the call has
\* done up to there
GetTokenAfterRefresh(r, seen) ==
    IF RefreshSucceeded(r)
    THEN /\ pc' = "done"
         /\ ret' = Ok(r.token)
         /\ obs' = seen
    ELSE /\ pc' = "devcode"
         /\ ret' = NoResult
         /\ obs' = [seen EXCEPT !.nDevCode = @ + 1]

\* refreshToken from the answer to its request up to os.WriteFile, and
\* GetToken after it where it returns without writing (s: how the save ends)
refreshToken ==
    /\ pc = "refresh"
    /\ \E o \in RefreshOutcomes, resp \in TokenResponse, s \in SaveOutcomes :
         LET seen == [obs EXCEPT !.refresh = o] IN
         CASE o # "token" ->
                /\ GetTokenAfterRefresh(Fail(o), seen)
                /\ UNCHANGED cache
           [] o = "token" /\ s = "unchanged" ->
                /\ cache' = saveTokenCache(cache, resp, now, s)
                /\ GetTokenAfterRefresh(ReturnAfterSave(resp, s),
                     [seen EXCEPT !.src = "refresh", !.save = s,
                                  !.resp = resp])
           [] o = "token" /\ s # "unchanged" ->
                /\ cache' = Truncated(cache)
                /\ pc' = "write"
                /\ obs' = [seen EXCEPT
                     !.src = "refresh", !.save = s, !.resp = resp,
                     !.data = saveTokenCache(cache, resp, now, s)]
                /\ UNCHANGED ret
    /\ UNCHANGED <<now, calls, interval, expiration, api>>
    /\ UNCHANGED <<cfg, client, req, prior>>
    /\ UNCHANGED uiVars

\* requestDeviceCode from the answer to its request, authenticateWithDeviceFlow
\* up to its call of browser.Open: the verification URI and the user code
\* are printed
requestDeviceCode ==
    /\ pc = "devcode"
    /\ \E o \in DeviceCodeOutcomes, dc \in DeviceCodeResponse :
         /\ IF DeviceCodeOk(o)
            THEN /\ pc' = "browser"
                 /\ obs' = [obs EXCEPT !.devcode = o, !.dc = dc,
                                       !.code = DeviceCode(calls, obs.nDevCode),
                                       !.printed = TRUE]
                 /\ UNCHANGED ret
            ELSE /\ pc' = "done"
                 /\ ret' = Fail("device_code")
                 /\ obs' = [obs EXCEPT !.devcode = o]
    /\ UNCHANGED <<cache, now, calls, interval, expiration, api>>
    /\ UNCHANGED <<cfg, client, req, prior>>
    /\ UNCHANGED uiVars

\* authenticateWithDeviceFlow: browser.Open has returned
openBrowser ==
    /\ pc = "browser"
    /\ \E b \in BrowserOutcomes :
         /\ obs' = [obs EXCEPT !.browser = b]
         /\ IF OpenErrorReturned(b)
            THEN pc' = "done" /\ ret' = Fail("browser")
            ELSE pc' = "opened" /\ UNCHANGED ret
    /\ UNCHANGED <<cache, now, calls, interval, expiration, api>>
    /\ UNCHANGED <<cfg, client, req, prior>>
    /\ UNCHANGED uiVars

\* authenticateWithDeviceFlow after browser.Open, whose error is not kept,
\* and pollForToken up to its loop
pollForTokenStart ==
    /\ pc = "opened"
    /\ interval' = InitialInterval(obs.dc)
    /\ expiration' = now + obs.dc.ExpiresIn
    /\ pc' = "loop"
    /\ obs' = [obs EXCEPT !.browser = "none"]
    /\ UNCHANGED <<cache, now, calls, ret, api>>
    /\ UNCHANGED <<cfg, client, req, prior>>
    /\ UNCHANGED uiVars

\* pollForToken: the loop condition
pollForTokenLoop ==
    /\ pc = "loop"
    /\ IF BeforeDeadline(now, expiration)
       THEN /\ pc' = "sleep"
            /\ UNCHANGED ret
       ELSE /\ pc' = "done"
            /\ ret' = Fail("timed_out")
    /\ UNCHANGED <<cache, now, calls, interval, expiration, obs, api>>
    /\ UNCHANGED <<cfg, client, req, prior>>
    /\ UNCHANGED uiVars

\* pollForToken: time.Sleep(interval), then the request is sent
pollForTokenSleep ==
    /\ pc = "sleep"
    /\ now' = now + SleepDuration(interval, obs.last)
    /\ pc' = "poll"
    /\ obs' = [obs EXCEPT !.nPoll = @ + 1,
                          !.slept = SleepDuration(interval, obs.last),
                          !.pollAt = now',
                          !.pollCode = DeviceCodeSent(obs.code)]
    /\ UNCHANGED <<cache, calls, interval, expiration, ret, api>>
    /\ UNCHANGED <<cfg, client, req, prior>>
    /\ UNCHANGED uiVars

\* pollForToken: the answer to a poll request
pollForTokenResponse ==
    /\ pc = "poll"
    /\ \E o \in PollOutcomes, d \in 0..MaxDelay, resp \in TokenResponse,
          s \in SaveOutcomes :
         /\ now' = now + d
         /\ interval' = NextInterval(interval, o)
         /\ CASE PollDisposition(o) = "continue" ->
                   /\ pc' = "loop"
                   /\ obs' = [obs EXCEPT
                        !.last = o, !.pendings = PendingsAfter(@, o)]
                   /\ UNCHANGED <<cache, ret>>
              [] PollDisposition(o) = "error" ->
                   /\ pc' = "done"
                   /\ ret' = Fail(o)
                   /\ obs' = [obs EXCEPT !.last = o,
                                         !.pendings = PendingsAfter(@, o)]
                   /\ UNCHANGED cache
              [] PollDisposition(o) = "token" /\ s = "unchanged" ->
                   /\ cache' = saveTokenCache(cache, resp, now', s)
                   /\ pc' = "done"
                   /\ ret' = ReturnAfterSave(resp, s)
                   /\ obs' = [obs EXCEPT !.last = o, !.src = "poll",
                                         !.save = s, !.resp = resp]
              [] PollDisposition(o) = "token" /\ s # "unchanged" ->
                   /\ cache' = Truncated(cache)
                   /\ pc' = "write"
                   /\ obs' = [obs EXCEPT
                        !.last = o, !.src = "poll", !.save = s, !.resp = resp,
                        !.data = saveTokenCache(cache, resp, now', s)]
                   /\ UNCHANGED ret
    /\ UNCHANGED <<calls, expiration, api>>
    /\ UNCHANGED <<cfg, client, req, prior>>
    /\ UNCHANGED uiVars

\* saveTokenCache: os.WriteFile from its Write on, then the return of
\* refreshToken or pollForToken, and GetToken after them
saveTokenCacheWrite ==
    /\ pc = "write"
    /\ cache' = obs.data
    /\ IF obs.src = "refresh"
       THEN GetTokenAfterRefresh(ReturnAfterSave(obs.resp, obs.save), obs)
       ELSE /\ pc' = "done"
            /\ ret' = ReturnAfterSave(obs.resp, obs.save)
            /\ UNCHANGED obs
    /\ UNCHANGED <<now, calls, interval, expiration, api>>
    /\ UNCHANGED <<cfg, client, req, prior>>
    /\ UNCHANGED uiVars

\* loadCachedToken of another devops-tui process, reading the file while
\* this one is inside os.WriteFile
PeerLoad ==
    /\ pc = "write"
    /\ obs.peer = NoStart
    /\ obs' = [obs EXCEPT !.peer = cache]
    /\ UNCHANGED <<cache, now, pc, calls, interval, expiration, ret, api>>
    /\ UNCHANGED <<cfg, client, req, prior>>
    /\ UNCHANGED uiVars

\* The same file with the clock's origin moved forward by t seconds.  The
\* code reads ExpiresAt only in TokenStillValid, so the origin is free, and
\* a record that has reached the validity buffer stays there: how far past
\* it the record is makes no difference to any later call.
Rebase(c, t) ==
    IF c.kind = "ok"
    THEN [c EXCEPT !.exp = IF @ - t > Margin THEN @ - t ELSE Margin]
    ELSE c

\* GetToken has returned to Login, or with an error to Execute, and the
\* command returns in turn; the locals of the call are gone.
\* The clock is counted anew from here.
GetTokenReturn ==
    /\ pc = "done"
    /\ ~(cfg # NoCfg /\ ret.err = "none")
    /\ pc' = "idle"
    /\ calls' = calls + 1
    /\ obs' = NoObs
    /\ prior' = IF obs.src = "poll" /\ obs.save = "ok" THEN ret ELSE NoResult
    /\ ret' = NoResult
    /\ interval' = 0
    /\ expiration' = 0
    /\ now' = 0
    /\ cache' = Rebase(cache, now)
    /\ cfg' = NoCfg
    /\ UNCHANGED <<api, client, req>>
    /\ UNCHANGED uiVars

\* Execute after a GetToken call without error: the token is put into the
\* configuration, the client is built from it and the TUI runs.  ret stays
\* as the local variable token of Execute; the other locals of the call are
\* gone as in GetTokenReturn.
ExecuteNewClient ==
    /\ pc = "done"
    /\ cfg # NoCfg /\ ret.err = "none"
    /\ cfg' = SetAccessToken(cfg, ret.token)
    /\ client' = NewClientWithToken(cfg', ret.token, FALSE)
    /\ pc' = "tui"
    /\ obs' = NoObs
    /\ prior' = IF obs.src = "poll" /\ obs.save = "ok" THEN ret ELSE NoResult
    /\ interval' = 0
    /\ expiration' = 0
    /\ now' = 0
    /\ cache' = Rebase(cache, now)
    /\ UNCHANGED <<calls, ret, api, req>>
    /\ UNCHANGED uiVars

\* a request of the API client while the TUI runs
doRequestWithContentType ==
    /\ pc = "tui"
    /\ \E contentType \in ContentTypes :
         req' = [Authorization |-> client.authHeader,
                 ContentType |-> contentType]
    /\ UNCHANGED <<cache, now, pc, calls, interval, expiration, ret, obs,
                   api, cfg, client, prior>>
    /\ UNCHANGED uiVars

\* Execute returns when the TUI ends, and the process with it
ExecuteReturn ==
    /\ pc = "tui"
    /\ pc' = "idle"
    /\ calls' = calls + 1
    /\ ret' = NoResult
    /\ cfg' = NoCfg
    /\ client' = NoClient
    /\ req' = NoReq
    /\ UNCHANGED <<cache, now, interval, expiration, obs, api, prior>>
    /\ UNCHANGED uiVars

\* a second passes while no call is running: the record is a second nearer
\* to its expiry
Tick ==
    /\ pc = "idle"
    /\ calls < MaxCalls
    /\ cache' = Rebase(cache, 1)
    /\ UNCHANGED <<now, pc, calls, interval, expiration, ret, obs, api>>
    /\ UNCHANGED <<cfg, client, req, prior>>
    /\ UNCHANGED uiVars

\* ClearCache, called between two GetToken calls
ClearCache ==
    /\ pc = "idle"
    /\ calls < MaxCalls
    /\ \E o \in RemoveOutcomes(cache) :
         /\ cache' = Remove(cache, o)
         /\ api' = [op |-> "ClearCache", err |-> ClearCacheErr(o),
                    has |-> FALSE, called |-> FALSE, before |-> cache,
                    prev |-> api.op, prevErr |-> api.err,
                    prevBefore |-> api.before]
    /\ prior' = NoResult
    /\ UNCHANGED <<now, pc, calls, interval, expiration, ret, obs>>
    /\ UNCHANGED <<cfg, client, req>>
    /\ UNCHANGED uiVars

\* HasCachedToken, called between two GetToken calls
HasCachedToken ==
    /\ pc = "idle"
    /\ calls < MaxCalls
    /\ api' = [op |-> "HasCachedToken", err |-> FALSE,
               has |-> Stat(cache), called |-> FALSE, before |-> cache,
               prev |-> api.op, prevErr |-> api.err,
               prevBefore |-> api.before]
    /\ UNCHANGED <<cache, now, pc, calls, interval, expiration, ret, obs>>
    /\ UNCHANGED <<cfg, client, req, prior>>
    /\ UNCHANGED uiVars

\* the variables of the authenticator and of the main run, but for the
\* configuration and the client
authVars == <<cache, now, pc, calls, interval, expiration, ret, obs, api,
              req, prior>>

\* config.Load, called by any user of the package
ConfigLoad ==
    /\ \E pat \in PATs : cfg' = Load(pat)
    /\ UNCHANGED <<authVars, client>>
    /\ UNCHANGED uiVars

\* Config.SetAccessToken, called by any user of the package on a
\* configuration that has been loaded
ConfigSetAccessToken ==
    /\ cfg # NoCfg
    /\ \E token \in AccessTokens : cfg' = SetAccessToken(cfg, token)
    /\ UNCHANGED <<authVars, client>>
    /\ UNCHANGED uiVars

\* api.NewClient on the configuration as it is
ConfigNewClient ==
    /\ cfg # NoCfg
    /\ client' = NewClient(cfg)
    /\ UNCHANGED <<authVars, cfg>>
    /\ UNCHANGED uiVars

\* the variables of the authenticator, of the main run and of the
\* configuration
mainVars == <<authVars, cfg, client>>

\* the detail components of the TUI
detailVars == <<lastKey, dv, dp, dpOut, fetch>>

\* all but the detail view
notDetailView == <<mainVars, w, dp, dpOut, fetch>>

\* all but the details panel
notDetailsPanel == <<mainVars, w, dv, fetch>>

\* all but the fetch of work items
notFetch == <<mainVars, w, lastOp, lastKey, dv, dp, dpOut>>

\* a key reaches the panel
PanelUpdate ==
    /\ \E key \in Keys : w' = Update(w, key)
    /\ lastOp' = "Update"
    /\ UNCHANGED <<mainVars, detailVars>>

\* the work items of a query reach the panel
PanelSetItems ==
    /\ \E items \in ItemLists : w' = SetItems(w, items)
    /\ lastOp' = "SetItems"
    /\ UNCHANGED <<mainVars, detailVars>>

\* the window is resized
PanelSetSize ==
    /\ \E height \in Heights : w' = SetSize(w, height)
    /\ lastOp' = "SetSize"
    /\ UNCHANGED <<mainVars, detailVars>>

\* the focus moves to or from the panel
PanelSetFocused ==
    /\ \E focused \in BOOLEAN : w' = SetFocused(w, focused)
    /\ lastOp' = "SetFocused"
    /\ UNCHANGED <<mainVars, detailVars>>

\* a key reaches the detail view
DetailUpdate ==
    /\ \E key \in DetailKeys :
           /\ dv' = DetailViewUpdate(dv, key)
           /\ lastKey' = key
    /\ lastOp' = "DetailView.Update"
    /\ UNCHANGED notDetailView

\* the detail view is rendered
DetailView ==
    /\ \E n \in 1..MaxLines : dv' = DetailViewView(dv, n)
    /\ lastOp' = "DetailView.View"
    /\ lastKey' = "none"
    /\ UNCHANGED notDetailView

\* a work item is opened in the detail view
DetailSetItem ==
    /\ \E item \in DetailItems : dv' = DetailViewSetItem(dv, item)
    /\ lastOp' = "DetailView.SetItem"
    /\ lastKey' = "none"
    /\ UNCHANGED notDetailView

\* the window is resized while the detail view is open
DetailSetSize ==
    /\ \E width \in DetailWidths, height \in DetailHeights :
           dv' = DetailViewSetSize(dv, width, height)
    /\ lastOp' = "DetailView.SetSize"
    /\ lastKey' = "none"
    /\ UNCHANGED notDetailView

\* a key reaches the details panel; its owner keeps the panel
\* Update returns
DetailsUpdate ==
    /\ \E key \in DetailKeys \cup {"view"} :
           /\ dp' = DetailsPanelUpdate(dp, key)
           /\ lastKey' = key
    /\ lastOp' = "DetailsPanel.Update"
    /\ UNCHANGED dpOut
    /\ UNCHANGED notDetailsPanel

\* the details panel is rendered
DetailsView ==
    /\ ~DetailsPanelViewPanics(dp)
    /\ \E n \in 1..MaxLines :
           /\ dp' = DetailsPanelView(dp, n)
           /\ dpOut' = DetailsPanelRendered(dp, n)
    /\ lastOp' = "DetailsPanel.View"
    /\ lastKey' = "none"
    /\ UNCHANGED notDetailsPanel

\* the selection of the list changes
DetailsSetItem ==
    /\ \E item \in DetailItems : dp' = DetailsPanelSetItem(dp, item)
    /\ dpOut' = NoView
    /\ lastOp' = "DetailsPanel.SetItem"
    /\ lastKey' = "none"
    /\ UNCHANGED notDetailsPanel

\* the focus moves to or from the details panel
DetailsSetFocused ==
    /\ \E focused \in BOOLEAN : dp' = DetailsPanelSetFocused(dp, focused)
    /\ lastOp' = "DetailsPanel.SetFocused"
    /\ lastKey' = "none"
    /\ UNCHANGED dpOut
    /\ UNCHANGED notDetailsPanel

\* the window is resized
DetailsSetSize ==
    /\ \E width \in DetailWidths, height \in DetailsHeights :
           dp' = DetailsPanelSetSize(dp, width, height)
    /\ dpOut' = NoView
    /\ lastOp' = "DetailsPanel.SetSize"
    /\ lastKey' = "none"
    /\ UNCHANGED notDetailsPanel

\* GetWorkItems is called with n ids; an empty list is answered at once
GetWorkItems ==
    /\ fetch.pc = "idle"
    /\ \E n \in IdCounts :
           fetch' = IF n = 0
                    THEN [NoFetch EXCEPT !.pc = "done"]
                    ELSE [NoFetch EXCEPT !.pc = "loop", !.n = n]
    /\ UNCHANGED notFetch

\* GetWorkItems: the head of the loop; the next batch is requested, or
\* after the last batch populateParentTitles sends its one request, if any
\* item has a parent
GetWorkItemsLoop ==
    /\ fetch.pc = "loop"
    /\ fetch' =
           IF fetch.i < fetch.n
           THEN [fetch EXCEPT
                     !.pc = "get",
                     !.requests =
                         Append(@, BatchRequest(fetch.i,
                                                BatchEnd(fetch.i, fetch.n)))]
           ELSE IF fetch.parentIDs = {}
           THEN [fetch EXCEPT !.pc = "done"]
           ELSE [fetch EXCEPT
                     !.pc = "parents",
                     !.requests = Append(@, ParentRequest(fetch.parentIDs))]
    /\ UNCHANGED notFetch

\* GetWorkItems: the answer to a batch; a failure ends the call, the items
\* of a success are appended
GetWorkItemsResponse ==
    /\ fetch.pc = "get"
    /\ \/ fetch' = [fetch EXCEPT !.pc = "done", !.err = "request",
                                   !.allItems = 0]
       \/ \E shape \in ParentShapes :
              LET end == BatchEnd(fetch.i, fetch.n)
              IN fetch' =
                     [fetch EXCEPT
                          !.pc = "loop",
                          !.allItems = @ + (end - fetch.i),
                          !.parentIDs =
                              @ \cup CollectParentIDs(fetch.i, end, fetch.n,
                                                      shape),
                          !.i = @ + batchSize]
    /\ UNCHANGED notFetch

\* populateParentTitles: the answer to its request; a failure is dropped
populateParentTitles ==
    /\ fetch.pc = "parents"
    /\ fetch' = [fetch EXCEPT !.pc = "done"]
    /\ UNCHANGED notFetch

\* GetWorkItems has returned; the client is free for the next call
GetWorkItemsReturn ==
    /\ fetch.pc = "done"
    /\ fetch' = NoFetch
    /\ UNCHANGED notFetch

\* the steps of a running GetToken call
Running ==
    \/ refreshToken
    \/ requestDeviceCode
    \/ openBrowser
    \/ pollForTokenStart
    \/ pollForTokenLoop
    \/ pollForTokenSleep
    \/ pollForTokenResponse
    \/ saveTokenCacheWrite

Next ==
    \/ GetToken
    \/ Running
    \/ GetTokenReturn
    \/ Tick
    \/ ClearCache
    \/ HasCachedToken
    \/ PeerLoad
    \/ Login
    \/ LoginGetToken
    \/ Logout
    \/ ExecuteWithPAT
    \/ ExecuteNewClient
    \/ doRequestWithContentType
    \/ ExecuteReturn

Spec == Init /\ [][Next]_vars

\* a call that has started runs on: it is the only thread, every network
\* call has a timeout and every sleep ends
FairSpec == Spec /\ WF_vars(Running)

\* the configuration under any sequence of Load, SetAccessToken and
\* NewClient
ConfigNext ==
    \/ ConfigLoad
    \/ ConfigSetAccessToken
    \/ ConfigNewClient

ConfigSpec == Init /\ [][ConfigNext]_vars

\* the TUI with its components as they are made, before any run of the
\* authenticator
UiInit == Init /\ cache = Absent

\* the work items list under any sequence of its operations
PanelNext ==
    \/ PanelUpdate
    \/ PanelSetItems
    \/ PanelSetSize
    \/ PanelSetFocused

PanelSpec == UiInit /\ [][PanelNext]_vars

\* the detail view under any sequence of its operations
DetailViewNext ==
    \/ DetailUpdate
    \/ DetailView
    \/ DetailSetItem
    \/ DetailSetSize

DetailViewSpec == UiInit /\ [][DetailViewNext]_vars

\* the details panel under any sequence of its operations
DetailsPanelNext ==
    \/ DetailsUpdate
    \/ DetailsView
    \/ DetailsSetItem
    \/ DetailsSetFocused
    \/ DetailsSetSize

DetailsPanelSpec == UiInit /\ [][DetailsPanelNext]_vars

\* the API client under any sequence of GetWorkItems calls
FetchNext ==
    \/ GetWorkItems
    \/ GetWorkItemsLoop
    \/ GetWorkItemsResponse
    \/ populateParentTitles
    \/ GetWorkItemsReturn

FetchSpec == UiInit /\ [][FetchNext]_vars

----------------------------------------------------------------------------
(* Properties of GetToken *)

\* the positions inside the loop of pollForToken
LoopPcs == {"loop", "sleep", "poll"}
\* how a refresh request fails
RefreshFailures == {"transport", "status", "bad_body"}
\* the answers that end the poll loop with an error
PollTerminals == {"expired_token", "authorization_declined", "other_error",
                  "bad_token_body"}

\* the record the running call loaded, read by the claim's own words
LoadedRecord == pc # "idle" /\ obs.start.kind = "ok"
LoadedValid == LoadedRecord /\ obs.start.exp > obs.t0 + Margin
LoadedExpiring == LoadedRecord /\ obs.t0 + Margin >= obs.start.exp

\* C1: a call that loads a record whose expiresAt is more than 5 minutes
\* after now sends no request at all (no refresh, no device-code request,
\* no poll) and returns exactly the access token of the record.
C1_CacheHitNoNetwork ==
    LoadedValid =>
        /\ pc = "done"
        /\ obs.nRefresh = 0 /\ obs.nDevCode = 0 /\ obs.nPoll = 0
        /\ obs.refresh = "none" /\ obs.devcode = "none" /\ obs.last = "none"
        /\ ret = Ok(obs.start.at)
        /\ cache = obs.start

C1_Witness ==
    /\ pc = "done" /\ LoadedValid
    /\ obs.src = "cache" /\ ret = Ok("A0")

\* C2: a call that loads a record expiring within 5 minutes (boundary
\* included) with a non-empty refresh token sends exactly one refresh
\* request; when that request succeeds the call returns the access token of
\* the refresh response and sends no device-code request and no poll.
C2_RefreshOnce ==
    (LoadedExpiring /\ obs.start.rt # NoToken) =>
        /\ obs.nRefresh = 1
        /\ obs.refresh = "token" =>
             /\ pc \in {"write", "done"}
             /\ pc = "done" => ret = Ok(obs.resp.AccessToken)
             /\ obs.src = "refresh"
             /\ obs.nDevCode = 0 /\ obs.nPoll = 0

C2_Witness ==
    /\ pc = "done" /\ LoadedExpiring /\ obs.start.rt = "R0"
    /\ obs.refresh = "token" /\ ret = Ok("T1")

\* expiresAt of the token a call returned: that of the record for a cache
\* hit, acquisition time plus lifetime for a token just received
ReturnedExpiresAt ==
    IF obs.src = "cache" THEN obs.start.exp ELSE now + obs.resp.ExpiresIn

ReturnedPastMargin ==
    pc = "done" /\ ret.err = "none" /\ now >= ReturnedExpiresAt - Margin

\* C3 as stated: no token is returned at a time at or past its expiresAt
\* minus 5 minutes unless a refresh was attempted in the same call.
C3_Original == ReturnedPastMargin => obs.nRefresh >= 1

\* C3, amended: a token returned at or past its expiresAt minus 5 minutes
\* without a refresh attempt in the same call never comes from the cache:
\* it is the token the device flow of that call has just received, whose
\* lifetime GetToken does not look at.
C3_NoStaleCacheHit ==
    (ReturnedPastMargin /\ obs.nRefresh = 0) =>
        /\ obs.src = "poll"
        /\ ~(LoadedExpiring /\ obs.start.rt # NoToken)

C3_Witness ==
    /\ pc = "done" /\ ret.err = "none"
    /\ LoadedRecord /\ obs.start.exp = obs.t0 + Margin
    /\ obs.nRefresh = 1 /\ obs.src = "refresh"

\* the cases in which GetToken has to fall back to the device flow
NeedsDeviceFlow ==
    /\ pc # "idle"
    /\ \/ obs.start.kind \in {"absent", "corrupt"}
       \/ LoadedExpiring /\ obs.start.rt = NoToken
       \/ obs.refresh \in RefreshFailures

\* C4: with the cache absent, corrupt, expired without refresh token, or
\* after a failed refresh, the call sends exactly one device-code request,
\* no poll is sent before that request was answered with a device code, the
\* poll loop then runs until it ends (token, terminal answer or deadline),
\* and a terminal answer makes GetToken return that error and no token.
\* (A device-code request that fails ends the call before the loop.)
C4_DeviceFlowFallback ==
    NeedsDeviceFlow =>
        /\ obs.nDevCode = 1
        /\ obs.nPoll > 0 => obs.devcode = "code"
        /\ pc \in LoopPcs => obs.devcode = "code"
        /\ pc = "done" =>
             IF obs.devcode = "code"
             THEN \/ ret.err = "none" /\ obs.src = "poll"
                                      /\ ret.token = obs.resp.AccessToken
                  \/ ret.err = "timed_out"
                  \/ ret.err \in PollTerminals /\ ret.err = obs.last
             ELSE ret = Fail("device_code") /\ obs.nPoll = 0
        /\ obs.last \in PollTerminals =>
             pc = "done" /\ ret = Fail(obs.last)

C4_Witness ==
    /\ pc = "done" /\ obs.refresh = "status"
    /\ obs.nDevCode = 1 /\ obs.nPoll = 2
    /\ obs.last = "expired_token" /\ ret = Fail("expired_token")

\* a poll request is sent in this step
PollSent == obs'.nPoll > obs.nPoll

\* C5: when the poll loop receives authorization_pending N times and then
\* the token, the call has sent exactly N+1 poll requests, each at least the
\* interval after the one before, it returns the access token of that
\* response, and the cache record written from it carries that token (a
\* write that fails is the case of C18).
PendingGap ==
    (PollSent /\ obs.nPoll >= 1 /\ obs.pendings >= 0) =>
        now' - obs.pollAt >= interval

C5_PendingThenSuccess ==
    /\ [](pc = "done" /\ obs.src = "poll" /\ obs.pendings >= 0 =>
            /\ obs.nPoll = obs.pendings + 1
            /\ ret = Ok(obs.resp.AccessToken)
            /\ obs.save # "none"
            /\ obs.save = "ok" =>
                 /\ cache.kind = "ok"
                 /\ cache.at = obs.resp.AccessToken)
    /\ [][PendingGap]_vars

C5_Witness ==
    /\ pc = "done" /\ obs.src = "poll"
    /\ obs.pendings = 2 /\ obs.nPoll = 3
    /\ obs.dc.Interval = 0 /\ interval = DefaultInterval
    /\ now - obs.t0 >= 3 * DefaultInterval
    /\ obs.save = "ok" /\ cache.at = "T1" /\ ret = Ok("T1")

\* the answers after which the loop polls again
TransientAnswers == {"authorization_pending", "slow_down", "transport"}

\* C6: the poll loop ends whatever the server answers, and a call whose
\* loop was answered only by authorization_pending, slow_down or transport
\* failures (or not at all) returns the timed-out error.
C6_LoopTerminates ==
    /\ (pc \in LoopPcs) ~> (pc = "done")
    /\ [](pc = "done" /\ obs.devcode = "code"
                      /\ obs.last \in TransientAnswers \cup {"none"} =>
            ret = Fail("timed_out"))

\* expiresIn = 1 s with an interval of 5 s: one poll, sent after the deadline
C6_Witness ==
    /\ pc = "done" /\ ret = Fail("timed_out")
    /\ obs.dc.ExpiresIn = 1 /\ interval = 5
    /\ obs.nPoll = 1 /\ now >= expiration

\* C7: every poll request, the first one and one after a transport failure
\* included, is sent at the end of a sleep of the current interval that
\* began in the same iteration, so it is at least that interval after the
\* poll request before it.
SleptBeforePoll ==
    PollSent =>
        /\ pc = "sleep" /\ pc' = "poll"
        /\ obs'.nPoll = obs.nPoll + 1
        /\ obs'.slept = interval
        /\ now' - now >= interval
        /\ obs.nPoll >= 1 => now' - obs.pollAt >= interval

C7_SleepBeforeEveryPoll == [][SleptBeforePoll]_vars

C7_Witness ==
    /\ pc = "poll" /\ obs.nPoll = 2 /\ obs.last = "transport"
    /\ obs.slept = interval /\ now - obs.slept >= DefaultInterval

\* C8: inside one poll loop the interval never decreases and changes only
\* with a slow_down answer, which adds exactly 5 seconds; an answer
\* authorization_pending or a transport failure leaves it as it is; the
\* sleep that follows a slow_down is longer than the sleep before it.
IntervalStep ==
    pc \in LoopPcs =>
        /\ pc' \in LoopPcs => interval' >= interval
        /\ (pc' \in LoopPcs /\ interval' # interval) =>
              /\ pc = "poll" /\ obs'.last = "slow_down"
              /\ interval' = interval + SlowDownIncrement
        /\ (pc = "poll" /\ pc' = "loop" /\ obs'.last = "slow_down") =>
              interval' = interval + SlowDownIncrement
        /\ (pc = "poll" /\ obs'.last \in {"authorization_pending",
                                          "transport"}) =>
              interval' = interval
        /\ (pc = "sleep" /\ obs.last = "slow_down") =>
              /\ obs'.slept = obs.slept + SlowDownIncrement
              /\ obs'.slept > obs.slept

C8_IntervalOnlyGrowsOnSlowDown == [][IntervalStep]_vars

C8_Witness ==
    /\ pc = "poll" /\ obs.last = "slow_down" /\ obs.nPoll = 2
    /\ interval = 2 + SlowDownIncrement /\ obs.slept = interval

\* C9: after an answer expired_token or authorization_declined the call is
\* over with an error and no token, and no further poll request is sent.
NoPollAfterTerminal ==
    obs.last \in {"expired_token", "authorization_declined"} =>
        ~PollSent /\ pc' = "idle"

C9_ExpiredDeclinedTerminal ==
    /\ [](obs.last \in {"expired_token", "authorization_declined"} =>
            /\ pc = "done"
            /\ ret = Fail(obs.last))
    /\ [][NoPollAfterTerminal]_vars

C9_Witness ==
    /\ pc = "done" /\ obs.last = "authorization_declined"
    /\ obs.nPoll = 2 /\ ret = Fail("authorization_declined")

\* C10 as stated: an answer with another error code, or with a body that
\* does not parse (with a success status or not), ends the call with an
\* error and no further poll request.
C10_Original ==
    obs.last \in {"other_error", "bad_error_body", "bad_token_body"} =>
        pc = "done" /\ ret.err # "none"

\* C11: a transport failure of a poll request does not end the loop: the
\* step that receives it goes back to the loop head and leaves the interval,
\* the cache and the (still missing) result as they are; before the deadline
\* the loop then sleeps the unchanged interval and sends the next request.
TransportKeepsPolling ==
    /\ (pc = "poll" /\ obs'.last = "transport") =>
          /\ pc' = "loop"
          /\ interval' = interval
          /\ cache' = cache
          /\ ret' = NoResult
    /\ (pc = "loop" /\ obs.last = "transport"
                    /\ BeforeDeadline(now, expiration)) => pc' = "sleep"
    /\ (pc = "sleep" /\ obs.last = "transport") =>
          /\ PollSent
          /\ now' - now = interval
          /\ UNCHANGED <<interval, cache>>

C11_TransportFailureRetried == [][TransportKeepsPolling]_vars

C11_Witness ==
    /\ pc = "poll" /\ obs.last = "transport" /\ obs.nPoll = 3
    /\ obs.pendings = -1 /\ interval = 2 /\ cache = obs.start
    /\ obs.pollAt < expiration

\* C12 as stated: a call that returns without error returns a non-empty
\* access token, the one of the cache record it loaded or the one of the
\* token response it received.
C12_Original ==
    (pc = "done" /\ ret.err = "none") =>
        /\ ret.token # NoToken
        /\ \/ obs.src = "cache" /\ ret.token = obs.start.at
           \/ obs.src \in {"refresh", "poll"}
                /\ ret.token = obs.resp.AccessToken

----------------------------------------------------------------------------
(* Properties of the cache file *)

\* HasCachedToken was called right after ClearCache
HasAfterClear == api.op = "HasCachedToken" /\ api.prev = "ClearCache"

C14_ClearCacheIdempotent ==
    /\ (api.op = "ClearCache" /\ api.before = Absent) =>
          ~api.err /\ cache = Absent
    /\ (api.op = "ClearCache" /\ api.prev = "ClearCache" /\ ~api.prevErr) =>
          /\ ~api.err
          /\ api.before = Absent
          /\ cache = api.before

C14_Witness ==
    /\ api.op = "ClearCache" /\ api.prev = "ClearCache" /\ ~api.prevErr
    /\ api.prevBefore = Corrupt /\ api.before = Absent
    /\ ~api.err /\ cache = Absent

\* the call has just saved a token response, and os.WriteFile gave no error
SavedNow == pc = "done" /\ obs.save = "ok"

C16_WriteReplacesWholesale ==
    SavedNow =>
        /\ cache = TokenCache(obs.resp.AccessToken, obs.resp.RefreshToken,
                              now + obs.resp.ExpiresIn)
        /\ (obs.src = "refresh" /\ obs.resp.RefreshToken = NoToken) =>
              /\ obs.start.rt # NoToken
              /\ cache.rt = NoToken

C16_Witness ==
    /\ SavedNow /\ obs.src = "refresh"
    /\ obs.start.at = "A0" /\ obs.start.rt = "R0"
    /\ cache.at = "T1" /\ cache.rt = NoToken /\ cache.exp = now + Margin

\* C17 as stated: a load by another process that falls inside a save reads
\* the complete file of before the save or the complete new one.
C17_Original ==
    obs.peer # NoStart =>
        \/ obs.peer = obs.start
        \/ obs.peer = MarshalIndent(NewTokenCache(obs.resp, now))

\* the call has received a token and saveTokenCache returned an error
SaveFailedNow == pc = "done" /\ obs.save \in {"unchanged", "partial"}

\* C18: when saveTokenCache fails after a token was received (by refresh or
\* by a poll), the call returns the access token just received and no
\* error; the file is the old one or a truncated one, so that a later call
\* does not find the new token in it and has to refresh or run the device
\* flow.
C18_FailedWriteIsWarning ==
    SaveFailedNow =>
        /\ obs.src \in {"refresh", "poll"}
        /\ ret = Ok(obs.resp.AccessToken)
        /\ cache \in {obs.start, Corrupt}
        /\ GetTokenPath(cache, now) \in {"refresh", "device"}

C18_Witness ==
    /\ SaveFailedNow /\ obs.save = "partial" /\ obs.src = "poll"
    /\ obs.start.kind = "ok" /\ cache = Corrupt /\ ret = Ok("T1")

\* C19: after a refresh request answered with a status other than 200, or
\* with a body that does not decode, the call goes on to the device flow:
\* it has sent one refresh request and no second one, one device-code
\* request, and the error it may return is one of the device flow.
C19_RefreshFailureFallsBack ==
    obs.refresh \in {"status", "bad_body"} =>
        /\ obs.nRefresh = 1
        /\ obs.nDevCode = 1
        /\ pc \in {"devcode", "browser", "opened", "done"}
                 \cup LoopPcs \cup {"write"}
        /\ obs.src \in {"none", "poll"}
        /\ pc = "done" =>
             ret.err \in {"none", "device_code", "timed_out"}
                           \cup PollTerminals

C19_Witness ==
    /\ pc = "done" /\ obs.refresh = "bad_body"
    /\ obs.nRefresh = 1 /\ obs.nDevCode = 1 /\ obs.nPoll = 1
    /\ obs.src = "poll" /\ ret = Ok("T1")

\* C20 as stated: after a transport failure of the refresh request the call
\* returns an error and sends no further request.
C20_Original ==
    obs.refresh = "transport" =>
        /\ pc = "done" /\ ret.err \notin {"none", "pending"}
        /\ obs.nDevCode = 0 /\ obs.nPoll = 0

----------------------------------------------------------------------------
(* Properties of the device flow and of the commands *)

\* C21: when the device-code request fails in transport or is answered with
\* a status other than 200, the call is over with the error of the device
\* flow and no token: it has sent that one device-code request, no poll
\* request, and the cache file is as the call found it.
C21_DeviceCodeFailureFatal ==
    obs.devcode \in {"transport", "status"} =>
        /\ pc = "done"
        /\ ret = Fail("device_code")
        /\ obs.nDevCode = 1
        /\ obs.nPoll = 0 /\ obs.last = "none"
        /\ cache = obs.start

C21_Witness ==
    /\ pc = "done" /\ obs.devcode = "status" /\ obs.refresh = "transport"
    /\ obs.start.kind = "ok" /\ cache = obs.start
    /\ ret = Fail("device_code")

\* C22: every poll request carries the device code that the one device-code
\* request of the same call was answered with, a code given in this call
\* and in no earlier one; so a call that runs the device flow after an
\* earlier one has resolved polls with a code of its own.
C22_DeviceCodeNotReused ==
    /\ obs.nPoll > 0 =>
          /\ obs.devcode = "code"
          /\ obs.nDevCode = 1
          /\ obs.pollCode = obs.code
    /\ obs.code # NoDeviceCode =>
          /\ obs.code = DeviceCode(calls, 1)
          /\ \A c \in 0..(calls - 1) : obs.code # DeviceCode(c, 1)

C22_Witness ==
    /\ calls = 1 /\ obs.nPoll = 2
    /\ obs.pollCode = DeviceCode(1, 1) /\ obs.pollCode # DeviceCode(0, 1)
    /\ obs.last = "authorization_pending"

\* C29: the verification URI and the user code are printed when browser.Open
\* is called; whether it succeeds or fails, the call goes on (no result
\* yet) into pollForToken, whose loop starts with the device code, the
\* interval and the lifetime of the device-code answer.
BrowserBestEffort ==
    /\ pc = "browser" =>
          /\ obs.printed /\ obs.browser = "none"
          /\ pc' = "opened"
          /\ obs'.browser \in BrowserOutcomes
          /\ ret' = NoResult
    /\ pc = "opened" =>
          /\ pc' = "loop"
          /\ obs'.code = obs.code /\ obs'.dc = obs.dc
          /\ interval' = InitialInterval(obs.dc)
          /\ expiration' = now + obs.dc.ExpiresIn
          /\ ret' = NoResult

C29_BrowserOpenNonFatal == [][BrowserBestEffort]_vars

\* browser.Open has failed, after the instructions were printed
C29_Witness ==
    /\ pc = "opened" /\ obs.browser = "failed" /\ obs.printed
    /\ obs.code = DeviceCode(0, 1) /\ obs.nPoll = 0
    /\ ret = NoResult

\* the GetToken call of a running login command
LoginCall == api.op = "Login" /\ pc \notin {"idle", "login"}

\* C23: login calls GetToken only with the cache file gone, whatever the
\* file was before; that call sends no refresh request and never returns a
\* token of the cache, so a login that succeeds has run the device flow and
\* returns the token a poll was answered with; and when ClearCache returns
\* an error, login returns without calling GetToken.
C23_LoginForcesDeviceFlow ==
    /\ pc = "login" => ~api.err /\ cache = Absent
    /\ LoginCall =>
          /\ obs.start = Absent
          /\ obs.nRefresh = 0 /\ obs.refresh = "none"
          /\ obs.nDevCode = 1
          /\ obs.src \in {"none", "poll"}
          /\ (pc = "done" /\ ret.err = "none") =>
                /\ obs.devcode = "code" /\ obs.nPoll >= 1
                /\ obs.src = "poll"
                /\ ret.token = obs.resp.AccessToken
    /\ (api.op = "Login" /\ api.err) =>
          /\ api.has /\ api.called
          /\ pc = "idle" /\ obs = NoObs /\ ret = NoResult

\* the file was there, login removed it and the device flow gave the token
C23_Witness ==
    /\ LoginCall /\ api.has /\ api.called /\ ~api.err
    /\ pc = "done" /\ ret = Ok("T1") /\ obs.src = "poll"
    /\ obs.nPoll = 2

\* a logout command runs in this step
LogoutStep == api'.op = "Logout" /\ api' # api

\* C24: logout sends no request and writes no record: it leaves the file as
\* it is or removes it.  With no file it does not call ClearCache and
\* returns no error, and whenever it returns no error there is no file
\* afterwards.
LogoutOnlyClears ==
    LogoutStep =>
        /\ cache' \in {cache, Absent}
        /\ pc = "idle" /\ pc' = "idle"
        /\ UNCHANGED <<obs, ret, now, calls, interval, expiration>>
        /\ cache = Absent => (~api'.called /\ ~api'.err /\ cache' = Absent)
        /\ ~api'.err => cache' = Absent

C24_LogoutOnlyClears ==
    /\ [][LogoutOnlyClears]_vars
    /\ []((api.op = "Logout" /\ ~api.err) => cache = Absent)

C24_Witness ==
    /\ api.op = "Logout" /\ api.has /\ api.called /\ ~api.err
    /\ api.before.kind = "ok" /\ api.before.at = "T1"
    /\ cache = Absent /\ calls = 1

\* a GetToken call is running or has just ended
InCall == pc \notin {"idle", "login", "tui"}

\* what a call does that found no file: no refresh request, one device-code
\* request, and the result of the device flow
NoCacheBehaviour ==
    /\ obs.nRefresh = 0 /\ obs.refresh = "none"
    /\ obs.nDevCode = 1
    /\ obs.src \in {"none", "poll"}
    /\ pc = "done" =>
         IF obs.devcode = "code"
         THEN \/ ret = Ok(obs.resp.AccessToken) /\ obs.src = "poll"
              \/ ret = Fail("timed_out")
              \/ ret.err \in PollTerminals /\ ret = Fail(obs.last)
         ELSE ret = Fail("device_code") /\ obs.nPoll = 0

\* a GetToken call starts in this step
CallStarts ==
    pc \in {"idle", "login"} /\ pc' \notin {"idle", "login", "tui"}

\* the first step of a call that finds no usable file: but for the record of
\* what it found, the same whether the file is missing or does not parse
SameFirstStep ==
    (CallStarts /\ cache.kind \in {"absent", "corrupt"}) =>
        /\ pc' = "devcode"
        /\ ret' = NoResult
        /\ [obs' EXCEPT !.start = NoStart, !.loadErr = "unset"]
             = [NoObs EXCEPT !.t0 = now, !.nDevCode = 1]
        /\ UNCHANGED <<cache, now, interval, expiration>>

\* C25: a call that finds a file that does not parse behaves as one that
\* finds no file: from the same first step on it sends no refresh request,
\* one device-code request and the polls of the device flow, returns the
\* result of the device flow, and always is at one of the positions of
\* GetToken (it does not crash).
C25_CorruptAsAbsent ==
    /\ []((InCall /\ obs.start.kind = "corrupt") => NoCacheBehaviour)
    /\ []((InCall /\ obs.start.kind = "absent") => NoCacheBehaviour)
    /\ [][SameFirstStep]_vars

C25_Witness ==
    /\ pc = "done" /\ obs.start = Corrupt /\ obs.loadErr = "syntax"
    /\ obs.nRefresh = 0 /\ obs.nDevCode = 1 /\ obs.nPoll = 2
    /\ ret = Ok("T1")

\* C26: loadCachedToken returns an error for a file that does not parse, one
\* that is not the error of a missing file, and no record: the call never
\* returns a token of such a file.
C26_CorruptDistinctFromAbsent ==
    InCall =>
        /\ obs.start.kind = "corrupt" =>
              /\ obs.loadErr \notin {"none", "not_exist"}
              /\ obs.src # "cache"
        /\ obs.start.kind = "absent" => obs.loadErr = "not_exist"
        /\ obs.start.kind = "ok" => obs.loadErr = "none"

\* the file an interrupted write of the call before has left
C26_Witness ==
    /\ InCall /\ calls = 1 /\ obs.start = Corrupt
    /\ obs.loadErr = "syntax" /\ pc = "devcode"


\* the call has the token of a poll response, and os.WriteFile gave no error
PollSavedNow == pc = "done" /\ obs.src = "poll" /\ obs.save = "ok"

\* the call comes next after one that returned the token of a poll response
\* and saved it, with nothing but time between the two, and less time than
\* the lifetime of that token minus the validity buffer
FollowsPollInTime ==
    /\ InCall
    /\ prior # NoResult
    /\ TokenStillValid(obs.t0, obs.start.exp)

\* C27: the poll answered with a token ends the loop; when the write of the
\* file succeeds, the file holds the access token and the refresh token of
\* the response and, as instant of expiry, the time of the save plus the
\* lifetime of the response, and the call returns the access token of the
\* response.  The next GetToken call, when nothing but time has come between
\* and less than the lifetime minus five minutes of it, returns that token
\* from the file without any request.
C27_PollSuccessPersistsAndIsReused ==
    /\ PollSavedNow =>
          /\ obs.last = "token"
          /\ ret = Ok(obs.resp.AccessToken)
          /\ cache = TokenCache(obs.resp.AccessToken, obs.resp.RefreshToken,
                                now + obs.resp.ExpiresIn)
    /\ (InCall /\ prior # NoResult) =>
          /\ obs.start.kind = "ok"
          /\ obs.start.at = prior.token
    /\ FollowsPollInTime =>
          /\ pc = "done"
          /\ ret = prior
          /\ obs.src = "cache"
          /\ obs.nRefresh = 0 /\ obs.nDevCode = 0 /\ obs.nPoll = 0

C27_Witness ==
    /\ FollowsPollInTime
    /\ prior = Ok("T1")
    /\ pc = "done" /\ ret = Ok("T1") /\ obs.src = "cache"
    /\ obs.start = TokenCache("T1", "R1", Margin + 1)


\* the interval pollForToken has to start with, for the device-code response
\* the call got
FirstIntervalIs(iv) ==
    /\ obs.dc.Interval = 0 => iv = 5
    /\ obs.dc.Interval # 0 => iv = obs.dc.Interval

\* C28: pollForToken starts with an interval of 5 seconds when the interval
\* of the device-code response is zero, as it is when the response has no
\* such member, and with the seconds of the response otherwise; the sleep
\* before the first poll request lasts that long, so the request is sent
\* that long after pollForToken began.
C28_InitialInterval ==
    /\ (pc \in LoopPcs /\ obs.nPoll = 0) => FirstIntervalIs(interval)
    /\ (pc = "poll" /\ obs.nPoll = 1) =>
          /\ FirstIntervalIs(interval)
          /\ FirstIntervalIs(obs.slept)
          /\ FirstIntervalIs(obs.pollAt - (expiration - obs.dc.ExpiresIn))

\* the response gave no interval, and the first poll request has been sent
\* after a sleep of five seconds
C28_Witness ==
    /\ pc = "poll" /\ obs.nPoll = 1
    /\ obs.dc.Interval = 0
    /\ interval = DefaultInterval /\ obs.slept = 5


\* the TUI of a run whose configuration needed OAuth
OAuthRun == pc = "tui" /\ cfg.PAT = NoToken

\* Execute goes on from a GetToken call without error: its token is the
\* one the call returned, and the client is built from it
ClientFromReturnedToken ==
    (pc = "done" /\ pc' = "tui") =>
        /\ ret.err = "none"
        /\ ret' = ret
        /\ cfg'.AccessToken = ret.token
        /\ client'.authHeader = "Bearer " \o ret.token

\* C30: when the configuration needs OAuth, Execute builds the client from
\* the token its GetToken call returned, as one string; every request of
\* that client has the Authorization header "Bearer " followed by exactly
\* that token; and the header NewClientWithToken(cfg, t, false) gives the
\* client is the one GetAuthHeader(t, false) returns.
C30_ClientCarriesBearerToken ==
    /\ [][ClientFromReturnedToken]_vars
    /\ [](OAuthRun =>
            /\ ret.err = "none"
            /\ client.authHeader = "Bearer " \o ret.token
            /\ client.authHeader = GetAuthHeader(ret.token, FALSE)
            /\ req # NoReq => req.Authorization = "Bearer " \o ret.token)

\* a request has been sent with the token the device flow or the cache gave
C30_Witness ==
    /\ OAuthRun /\ ret = Ok("T1")
    /\ client.authHeader = "Bearer T1"
    /\ req.Authorization = "Bearer T1"


\* the call has got a token response with HTTP success, from the refresh
\* request or from a poll request
GotTokenResponse ==
    \/ obs.src = "refresh" /\ obs.refresh = "token"
    \/ obs.src = "poll" /\ obs.last = "token"

\* C31: while a GetToken call runs and when it has ended, the cache file
\* differs from the one the call found only if the call has got a token
\* response with HTTP success: a cache hit, a failed refresh, a failed
\* device-code request and a poll loop ended by an error or by the deadline
\* leave the file as it was.  The call never removes the file.
C31_CacheChangesOnlyOnTokenResponse ==
    InCall =>
        /\ cache # obs.start => GotTokenResponse
        /\ (pc = "done" /\ (obs.src = "cache" \/ ret.err # "none")) =>
              cache = obs.start
        /\ cache = Absent => obs.start = Absent

\* the refresh failed, the device flow ended with expired_token, and the
\* record the call found is still in the file
C31_Witness ==
    /\ pc = "done" /\ ret = Fail("expired_token")
    /\ obs.refresh = "status" /\ obs.nPoll >= 1
    /\ obs.start = TokenCache("A0", "R0", Margin)
    /\ cache = obs.start


\* the deadline is looked at where the loop begins an iteration, and nowhere
\* else: a poll request is sent at the end of a sleep that follows a check
\* which found the time before the deadline, every poll request before it
\* was sent before the deadline, and a check that finds the deadline
\* reached ends the call with the timeout error and without a request
DeadlineAtTopOnly ==
    /\ PollSent =>
          /\ pc = "sleep"
          /\ now < expiration
          /\ obs.nPoll >= 1 => obs.pollAt < expiration
    /\ (pc = "loop" /\ now >= expiration /\ pc' # pc) =>
          /\ pc' = "done"
          /\ ret' = Fail("timed_out")
          /\ obs'.nPoll = obs.nPoll
    /\ (pc = "loop" /\ pc' = "sleep") => (now < expiration /\ now' = now)

\* C32: pollForToken compares the time with the deadline only at the top of
\* an iteration, before the sleep.  Every poll request belongs to an
\* iteration whose check found now < expiration; only the last request of a
\* call can be sent at or after the deadline; after a check that found
\* now >= expiration no request is sent; and with expires_in <= 0 no poll
\* request is sent at all and the call returns the timeout error.
C32_DeadlineCheckedBeforeSleep ==
    /\ [][DeadlineAtTopOnly]_vars
    /\ []((pc \in LoopPcs \cup {"write", "done"} /\ obs.devcode = "code"
             /\ obs.dc.ExpiresIn <= 0) =>
            /\ obs.nPoll = 0
            /\ pc \in {"loop", "done"}
            /\ pc = "done" => ret = Fail("timed_out"))
    /\ []((pc = "done" /\ ret = Fail("timed_out")) => now >= expiration)

\* the check before the last poll request was in time, the request itself
\* was sent after the deadline, and the next check ended the call
C32_Witness ==
    /\ pc = "done" /\ ret = Fail("timed_out")
    /\ obs.nPoll >= 2
    /\ obs.pollAt >= expiration
    /\ obs.pollAt - obs.slept < expiration


\* C33: for a configuration that has been loaded, IsPAT() is true exactly
\* when GetToken() returns the PAT, that is when the PAT is not empty, and
\* the header NewClient builds agrees: Basic with the PAT, Bearer with the
\* access token, never Bearer with a PAT.
C33_Original ==
    /\ cfg # NoCfg => (IsPAT(cfg) <=> cfg.PAT # NoToken)
    /\ client.authHeader \notin
         {"Bearer " \o pat : pat \in PATs \ {NoToken}}


\* C34: the cursor of the panel is the index of an item of the list whenever
\* the list is not empty, and 0 when it is empty, so SelectedItem returns
\* nil for an empty list only.
C34_CursorOnExistingItem ==
    /\ Len(w.items) > 0 => (0 <= w.cursor /\ w.cursor < Len(w.items))
    /\ Len(w.items) = 0 => w.cursor = 0
    /\ (SelectedItem(w) = Nil) <=> (Len(w.items) = 0)

\* SetItems has left a list of one item, with the cursor on it
C34_Witness ==
    /\ lastOp = "SetItems"
    /\ Len(w.items) = 1 /\ w.cursor = 0 /\ w.offset = 0
    /\ w.height = 9 /\ w.focused
    /\ SelectedItem(w) = WorkItem(2, "Active", "Bug")


SortKey(item) ==
    CASE w'.sortField = "SortByState" -> StringRank(item.State)
      [] w'.sortField = "SortByType" -> StringRank(item.Type)
      [] OTHER -> item.ID

\* SetItems runs in this step
SetItemsStep == lastOp' = "SetItems"

\* what SetItems does with the cursor
SetItemsKeepsSelection ==
    SetItemsStep =>
        LET old == SelectedItem(w)
            n == Len(w'.items)
            found == \E k \in 1..n : w'.items[k].ID = old.ID
        IN
        /\ \A k \in 1..(n - 1) :
              IF w'.sortDir = "SortDesc"
              THEN SortKey(w'.items[k]) >= SortKey(w'.items[k + 1])
              ELSE SortKey(w'.items[k]) <= SortKey(w'.items[k + 1])
        /\ (Len(w.items) > 0 /\ old.ID > 0 /\ found) =>
              SelectedItem(w').ID = old.ID
        /\ (Len(w.items) > 0 /\ ~(old.ID > 0 /\ found)) =>
              w'.cursor = IF w.cursor < n THEN w.cursor
                          ELSE IF n > 0 THEN n - 1 ELSE 0
        /\ Len(w.items) = 0 => w'.cursor = 0
        /\ <<w'.height, w'.focused, w'.sortField, w'.sortDir>>
             = <<w.height, w.focused, w.sortField, w.sortDir>>

\* C36: SetItems keeps the selection.  When the panel holds a list that is
\* not empty and the ID of the item under the cursor is greater than 0 and
\* occurs in the new list, the cursor is afterwards on an item with that ID
\* in the new list as sorted by the sort in force.  Otherwise, with a list
\* held before, the cursor stays at its index, brought into the range of the
\* new list; it is put to 0 as new data only when the list before was
\* empty.
C36_SetItemsKeepsSelection == [][SetItemsKeepsSelection]_vars

\* after SetItems the cursor is on the item with ID 2, the last of the list
\* sorted by ID
C36_Witness ==
    /\ lastOp = "SetItems"
    /\ w.sortField = "SortByID" /\ w.sortDir = "SortAsc"
    /\ w.items = <<WorkItem(1, "New", "Bug"), WorkItem(2, "Active", "Bug")>>
    /\ w.cursor = 1 /\ w.offset = 1 /\ w.height = 0

\* C37: in the DetailView the scroll position stays in range,
\* 0 <= scrollOffset <= maxScroll, after any sequence of SetItem, SetSize,
\* View and Update; and after SetItem scrollOffset and maxScroll are 0 and
\* the content is marked as not built.
C37_ScrollInRange ==
    /\ 0 <= dv.scrollOffset
    /\ dv.scrollOffset <= dv.maxScroll
    /\ lastOp = "DetailView.SetItem" =>
           /\ dv.scrollOffset = 0
           /\ dv.maxScroll = 0
           /\ ~dv.contentBuilt

\* a page down stopped at the end of a content longer than the view, which
\* was built for another size than the one held now
C37_Witness ==
    /\ lastOp = "DetailView.Update"
    /\ lastKey = "pgdown"
    /\ dv.maxScroll > 0
    /\ dv.scrollOffset = dv.maxScroll
    /\ ~dv.contentBuilt

\* a key that scrolls down reaches the focused details panel while the
\* view last rendered has more lines than the viewable height
ScrollDownOnLongContent ==
    /\ lastOp' = "DetailsPanel.Update"
    /\ lastKey' \in {"down", "bottom", "pgdown"}
    /\ dp.focused
    /\ dpOut.contentLines > dp.height - 2

ScrollDownKeepsOffset ==
    ScrollDownOnLongContent => dp'.scrollOffset = dp.scrollOffset

\* C38: the DetailsPanel the TUI holds never gets a non-zero maxScroll,
\* since View computes it on its value receiver: after any sequence of
\* SetItem, SetSize, SetFocused, View and Update on a panel made by
\* NewDetailsPanel, scrollOffset = 0 and maxScroll = 0, and the down, bottom
\* and page-down keys leave scrollOffset as it was even when the content has
\* more lines than the viewable height.
C38_DetailsPanelNeverScrolls ==
    /\ [](dp.scrollOffset = 0 /\ dp.maxScroll = 0)
    /\ [][ScrollDownKeepsOffset]_vars

\* the focused panel was given the bottom key after a View whose content
\* was longer than the viewable height, so that the View computed a
\* maxScroll above 0
C38_Witness ==
    /\ lastOp = "DetailsPanel.Update"
    /\ lastKey = "bottom"
    /\ dp.focused
    /\ dpOut.contentLines > dp.height - 2
    /\ dpOut.maxScroll > 0

\* the batch requests of the running call, in the order sent
BatchRequests == SelectSeq(fetch.requests, LAMBDA r : r.kind = "batch")

\* the batches are consecutive pieces of the id list, in its order, none
\* empty and none longer than batchSize, and no id is in two of them
BatchesInOrder ==
    \A k \in 1..Len(BatchRequests) :
        /\ BatchRequests[k].from = (IF k = 1 THEN 0 ELSE BatchRequests[k - 1].to)
        /\ BatchRequests[k].from < BatchRequests[k].to
        /\ BatchRequests[k].to <= fetch.n
        /\ BatchRequests[k].ids <= batchSize

\* a call that has sent its last batch has sent every id
AllIdsRequested ==
    (fetch.pc \in {"parents", "done"} /\ fetch.err = "none" /\ fetch.n > 0) =>
        /\ Len(BatchRequests) > 0
        /\ BatchRequests[Len(BatchRequests)].to = fetch.n

\* C39 as stated: no request to the work-items endpoint carries more than
\* 200 ids: GetWorkItems splits the id list into consecutive batches of at
\* most 200, requests every id exactly once in the original order, and the
\* request of populateParentTitles stays within 200 ids too.  Violated by
\* the parent request of a call whose items have more than 200 parents.
C39_Original ==
    /\ \A k \in 1..Len(fetch.requests) : fetch.requests[k].ids <= batchSize
    /\ BatchesInOrder
    /\ AllIdsRequested

====
